---- MODULE Spec2Model ----
(***************************************************************************)
(* AutoKB (src-tauri): the playback scheduler (player.rs), the recorder    *)
(* (recorder.rs), the macro trigger table (macro_trigger.rs) and the input *)
(* arbiter (input_manager.rs) as a state machine of threads that share the *)
(* process-wide singletons PLAYBACK_STATE, RECORDING_STATE and MACRO_STATE.*)
(*                                                                         *)
(* Every load and store of an atomic, and every lock-protected access, is  *)
(* one step; threads interleave between steps.                             *)
(***************************************************************************)
EXTENDS Integers, Sequences, FiniteSets, TLC

(***************************************************************************)
(* Bounds of the model.                                                    *)
(***************************************************************************)
\* Playback worker threads the model lets play_script spawn in one behaviour.
MaxWorkers == 2
\* current_loop (a u32) is tracked exactly up to MaxLoop and saturates there:
\* every finite loop_config.count of Scripts is below MaxLoop, so the only
\* comparison the code makes (player.rs:275) cannot tell larger values apart.
MaxLoop == 3
\* The hook thread takes a new event only while the recorder's log holds fewer
\* than MaxLog events.
MaxLog == 2

\* The clock advances in steps of tick_ms up to MaxNow (milliseconds).
tick_ms == 10
MaxNow == 40

(***************************************************************************)
(* Program constants.                                                      *)
(***************************************************************************)
\* player.rs:150  let chunk_ms = 100;
chunk_ms == 100
\* input_manager.rs:297  if elapsed >= 20
throttle_ms == 20

(***************************************************************************)
(* Data: script.rs                                                         *)
(***************************************************************************)
\* KeyboardKey (script.rs:48-53)
Char(c) == [type |-> "Char", value |-> c]
Special(s) == [type |-> "Special", value |-> s]

\* impl From<rdev::Key> for KeyboardKey (script.rs:55-137). rdev keys are
\* named by their variant names.
SpecialKeys ==
    {"Alt", "AltGr", "Backspace", "CapsLock", "ControlLeft", "ControlRight",
     "Delete", "DownArrow", "End", "Escape", "F1", "F2", "F3", "F4", "F5",
     "F6", "F7", "F8", "F9", "F10", "F11", "F12", "Home", "LeftArrow",
     "MetaLeft", "MetaRight", "PageDown", "PageUp", "Return", "RightArrow",
     "ShiftLeft", "ShiftRight", "Space", "Tab", "UpArrow", "PrintScreen",
     "ScrollLock", "Pause", "NumLock", "Insert"}
CharKeys ==
    [Num0 |-> "0", Num1 |-> "1", Num2 |-> "2", Num3 |-> "3", Num4 |-> "4",
     Num5 |-> "5", Num6 |-> "6", Num7 |-> "7", Num8 |-> "8", Num9 |-> "9",
     KeyA |-> "a", KeyB |-> "b", KeyC |-> "c", KeyD |-> "d", KeyE |-> "e",
     KeyF |-> "f", KeyG |-> "g", KeyH |-> "h", KeyI |-> "i", KeyJ |-> "j",
     KeyK |-> "k", KeyL |-> "l", KeyM |-> "m", KeyN |-> "n", KeyO |-> "o",
     KeyP |-> "p", KeyQ |-> "q", KeyR |-> "r", KeyS |-> "s", KeyT |-> "t",
     KeyU |-> "u", KeyV |-> "v", KeyW |-> "w", KeyX |-> "x", KeyY |-> "y",
     KeyZ |-> "z"]
KeyboardKey_from(key) ==
    IF key \in SpecialKeys THEN Special(key)
    ELSE IF key \in DOMAIN CharKeys THEN Char(CharKeys[key])
    ELSE Special("Unknown")

\* impl From<rdev::Button> for MouseButton (script.rs:19-30)
MouseButton_from(btn) ==
    IF btn \in {"Left", "Right", "Middle"} THEN btn
    ELSE IF btn = "Unknown(1)" THEN "Back"
    ELSE IF btn = "Unknown(2)" THEN "Forward"
    ELSE "Unknown"

\* ScriptEvent (script.rs:142-173)
KeyPress(k, d) == [event_type |-> "KeyPress", key |-> k, delay_ms |-> d]
KeyRelease(k, d) == [event_type |-> "KeyRelease", key |-> k, delay_ms |-> d]
MousePress(b, x, y, d) ==
    [event_type |-> "MousePress", button |-> b, x |-> x, y |-> y, delay_ms |-> d]
MouseRelease(b, x, y, d) ==
    [event_type |-> "MouseRelease", button |-> b, x |-> x, y |-> y, delay_ms |-> d]
MouseMove(x, y, d) == [event_type |-> "MouseMove", x |-> x, y |-> y, delay_ms |-> d]
MouseScroll(dx, dy, d) ==
    [event_type |-> "MouseScroll", delta_x |-> dx, delta_y |-> dy, delay_ms |-> d]

\* MacroTrigger (script.rs:204-209)
TriggerKeyPress(k) == [trigger_type |-> "KeyPress", key |-> k]
TriggerMousePress(b) == [trigger_type |-> "MousePress", button |-> b]

\* LoopConfig::default (script.rs:235-242)
LoopConfig_default == [count |-> 1, delay_between_ms |-> 0]

\* Script::default (script.rs:263-275). speed_multiplier is an f64; the model
\* keeps it as the fraction num/den (1.0 = <<1, 1>>, 2.0 = <<2, 1>>).
Script_default ==
    [events |-> <<>>, loop_config |-> LoopConfig_default,
     speed_multiplier |-> <<1, 1>>]

\* The scripts the callers pass to play_script.
ScriptEmpty == Script_default
ScriptTwice ==
    [events |-> <<KeyPress(Char("a"), 150)>>,
     loop_config |-> [count |-> 2, delay_between_ms |-> 150],
     speed_multiplier |-> <<1, 1>>]
ScriptForever ==
    [events |-> <<KeyPress(Char("a"), 0)>>,
     loop_config |-> [count |-> 0, delay_between_ms |-> 0],
     speed_multiplier |-> <<1, 1>>]
Scripts == {ScriptEmpty, ScriptTwice, ScriptForever}

\* The arguments the callers pass to play_events.
EventLists == {<<>>, <<KeyPress(Char("a"), 0), KeyRelease(Char("a"), 50)>>}
Speeds == {<<2, 1>>}

(***************************************************************************)
(* Threads.                                                                *)
(***************************************************************************)
\* "cmd": the command surface (lib.rs); "macro": the thread check_and_execute
\* spawns (macro_trigger.rs:75-86), which calls play_script; "hook": the input
\* hook thread, which runs handle_event (input_manager.rs:51-60); "cmd2": a
\* second thread calling the pub functions of macro_trigger.rs.
Callers == {"cmd", "macro", "hook", "cmd2"}
PlayCallers == {"cmd", "macro"}
EventsCallers == {"cmd"}
StopCallers == {"cmd"}
Workers == 1..MaxWorkers

VARIABLES
    is_playing,      \* PlaybackState.is_playing   (player.rs:19)
    current_loop,    \* PlaybackState.current_loop (player.rs:21)
    current_event,   \* PlaybackState.current_event (player.rs:23)
    stop_requested,  \* PlaybackState.stop_requested (player.rs:25)
    caller,          \* per calling thread: position in the function it runs
    worker,          \* per playback worker thread: position in the closure
    is_recording,    \* RecordingState.is_recording (recorder.rs:17)
    events,          \* RecordingState.events (recorder.rs:19)
    start_time,      \* RecordingState.start_time (recorder.rs:21)
    last_event_time, \* RecordingState.last_event_time (recorder.rs:23)
    mouse_position,  \* RecordingState.mouse_position (recorder.rs:25)
    macro_active,    \* MacroState.is_active (macro_trigger.rs:20)
    macros,          \* MacroState.macros (macro_trigger.rs:22)
    hotkeys,         \* HotkeyState (hotkey.rs:12-19)
    now,             \* Instant::now(), in ms
    is_running,      \* InputManager.is_running (input_manager.rs:20)
    app_handle,      \* InputManager.app_handle (input_manager.rs:21)
    listeners,       \* listener threads init has spawned (input_manager.rs:51)
    last_move,       \* history: the last raw pointer move handle_event received
    overlay,         \* the overlay window: "hidden", or the border colour it
                     \* is shown with while the main window is hidden
                     \* (input_manager.rs:64-89)
    f9_pressed       \* history: <<is_recording at the last physical F9 press
                     \* the raw hook and the shortcut handler were given>>

recvars == <<is_recording, events, start_time, last_event_time, mouse_position>>
macvars == <<macro_active, macros>>
inpvars == <<is_running, app_handle, listeners>>
envvars == <<hotkeys, now, inpvars, last_move, overlay, f9_pressed>>
vars ==
    <<is_playing, current_loop, current_event, stop_requested, caller, worker,
      recvars, macvars, envvars>>

\* PlaybackState as one value, for the operators below.
PS ==
    [is_playing |-> is_playing, current_loop |-> current_loop,
     current_event |-> current_event, stop_requested |-> stop_requested]

(***************************************************************************)
(* PlaybackState (player.rs:28-84)                                         *)
(***************************************************************************)
\* PlaybackState::new (player.rs:29-36)
PlaybackState_new ==
    [is_playing |-> FALSE, current_loop |-> 0, current_event |-> 0,
     stop_requested |-> FALSE]

\* PlaybackState::start (player.rs:42-47): the state after all four stores.
PlaybackState_start(ps) ==
    [ps EXCEPT !.current_loop = 0, !.current_event = 0,
               !.stop_requested = FALSE, !.is_playing = TRUE]

\* stop() without the store to is_playing.
PlaybackState_stop_flag_only(ps) == [ps EXCEPT !.stop_requested = TRUE]

\* PlaybackState::stop (player.rs:49-52): the state after both stores.
PlaybackState_stop(ps) ==
    [ps EXCEPT !.stop_requested = TRUE, !.is_playing = FALSE]

\* PlaybackState::increment_loop (player.rs:58-62), saturating at MaxLoop.
increment_loop(n) == IF n < MaxLoop THEN n + 1 ELSE MaxLoop

\* execute_event (player.rs:146): (delay_ms as f64 / speed_multiplier) as u64
adjusted_delay(event, speed) == (event.delay_ms * speed[2]) \div speed[1]

\* play_script with the two validations in the other order.
play_script_validate_empty_first(playing, script) ==
    IF script.events = <<>> THEN "Script has no events"
    ELSE IF playing THEN "Already playing"
    ELSE "Ok"

\* play_script without the test for an empty event list.
play_script_validate_no_empty_test(playing, script) ==
    IF playing THEN "Already playing" ELSE "Ok"

\* play_script (player.rs:238-244): the two start-time validations, in order.
play_script_validate(playing, script) ==
    IF playing THEN "Already playing"
    ELSE IF script.events = <<>> THEN "Script has no events"
    ELSE "Ok"

\* play_events (player.rs:313-320): the script it hands to play_script.
play_events_script(event_list, speed) ==
    [Script_default EXCEPT !.events = event_list, !.speed_multiplier = speed]

(***************************************************************************)
(* RecordingState (recorder.rs:15-93)                                      *)
(***************************************************************************)
\* RecordingState::new (recorder.rs:29-37). An Option is the empty sequence
\* (None) or a one-element sequence (Some).
RecordingState_new ==
    [is_recording |-> FALSE, events |-> <<>>, start_time |-> <<>>,
     last_event_time |-> <<>>, mouse_position |-> <<0, 0>>]

\* RecordingState::get_elapsed_ms (recorder.rs:64-70)
get_elapsed_ms ==
    IF last_event_time = <<>> THEN 0 ELSE now - last_event_time[1]

(***************************************************************************)
(* MacroState (macro_trigger.rs:18-111)                                    *)
(***************************************************************************)
\* Debug formatting of a KeyboardKey (derive(Debug), script.rs:46).
KeyboardKey_debug(key) ==
    IF key.type = "Char" THEN "Char('" \o key.value \o "')"
    ELSE "Special(\"" \o key.value \o "\")"

\* get_trigger_id (macro_trigger.rs:106-111)
get_trigger_id(trigger) ==
    IF trigger.trigger_type = "KeyPress"
    THEN "key:" \o KeyboardKey_debug(trigger.key)
    ELSE "mouse:" \o trigger.button

\* MacroDefinition as macro_trigger.rs uses it (macro_trigger.rs:157-164).
MacroA ==
    [id |-> "macro_1", name |-> "a", trigger |-> TriggerKeyPress(Char("a")),
     script_path |-> "a.json", enabled |-> TRUE]
MacroF9 ==
    [id |-> "macro_2", name |-> "f9", trigger |-> TriggerKeyPress(Special("F9")),
     script_path |-> "a.json", enabled |-> TRUE]
\* A second definition with the trigger of MacroA; its script file is missing.
MacroA2 ==
    [id |-> "macro_3", name |-> "a2", trigger |-> TriggerKeyPress(Char("a")),
     script_path |-> "b.json", enabled |-> TRUE]
MacroDefs == {MacroA, MacroA2, MacroF9}

\* The trigger identities of the definitions.
TriggerIds == {get_trigger_id(m.trigger) : m \in MacroDefs}

\* The String keys of the HashMap the model can hold; a key maps to <<>>
\* (absent) or <<definition>>.
MacroKeys == TriggerIds \cup {m.id : m \in MacroDefs}

\* MacroState::new (macro_trigger.rs:26-31)
MacroState_new ==
    [is_active |-> FALSE, macros |-> [k \in MacroKeys |-> <<>>]]

\* add_macro keyed by the definition's id instead of its trigger identity.
add_macro_by_id(table, macro_def) ==
    [table EXCEPT ![macro_def.id] = <<macro_def>>]

\* MacroState::add_macro (macro_trigger.rs:42-45): HashMap::insert under the
\* trigger identity.
add_macro(table, macro_def) ==
    [table EXCEPT ![get_trigger_id(macro_def.trigger)] = <<macro_def>>]

\* MacroState::get_all_macros (macro_trigger.rs:53-55): the values, as a set.
get_all_macros == {macros[k][1] : k \in {j \in MacroKeys : macros[j] # <<>>}}

\* The number of entries of the HashMap, the length of the list
\* get_all_macros returns.
macros_len == Cardinality({k \in MacroKeys : macros[k] # <<>>})

\* MacroState::find_by_trigger (macro_trigger.rs:58-61)
find_by_trigger(trigger) ==
    IF get_trigger_id(trigger) \in TriggerIds
    THEN macros[get_trigger_id(trigger)] ELSE <<>>

\* The script files on disk: fs::read_to_string and serde_json::from_str
\* (macro_trigger.rs:76-77) yield <<script>>, or <<>> when either fails.
ScriptFile ==
    [events |-> <<KeyPress(Char("b"), 50)>>,
     loop_config |-> [count |-> 2, delay_between_ms |-> 50],
     speed_multiplier |-> <<1, 1>>]
read_script(path) == IF path = "a.json" THEN <<ScriptFile>> ELSE <<>>

(***************************************************************************)
(* HotkeyState (hotkey.rs:12-41)                                           *)
(***************************************************************************)
\* HotkeyState::new (hotkey.rs:22-28)
HotkeyState_new ==
    [recording_key |-> "F9", playback_key |-> "F10", stop_key |-> "Escape"]

(***************************************************************************)
(* InputManager (input_manager.rs:19-61)                                   *)
(***************************************************************************)
\* InputManager::new (input_manager.rs:25-30), with no listener thread yet.
InputManager_new ==
    [is_running |-> FALSE, app_handle |-> <<>>, listeners |-> 0]

\* init (input_manager.rs:47-60) without the swap guard: every call spawns.
init_swap_unguarded(im) ==
    [im EXCEPT !.is_running = TRUE, !.listeners = @ + 1]

\* init (input_manager.rs:47-60): is_running.swap(true); the first call
\* spawns the listener thread, a later call returns.
init_swap(im) ==
    IF im.is_running THEN im
    ELSE [im EXCEPT !.is_running = TRUE, !.listeners = @ + 1]

\* init (input_manager.rs:43-61), the whole call.
InputManager_init(im, handle) == init_swap([im EXCEPT !.app_handle = <<handle>>])

\* The application handles init is called with.
Handles == {"app", "app2"}

(***************************************************************************)
(* Initial state                                                           *)
(***************************************************************************)
\* rdev::EventType, the raw events the hook thread receives.
RawKeyPress(key) == [type |-> "KeyPress", key |-> key]
RawKeyRelease(key) == [type |-> "KeyRelease", key |-> key]
RawButtonPress(btn) == [type |-> "ButtonPress", button |-> btn]
RawButtonRelease(btn) == [type |-> "ButtonRelease", button |-> btn]
RawMouseMove(x, y) == [type |-> "MouseMove", x |-> x, y |-> y]
RawWheel(dx, dy) == [type |-> "Wheel", delta_x |-> dx, delta_y |-> dy]
NoEvent == [type |-> "None"]

\* A thread that runs nothing; the fields are the locals of the functions
\* it can be in.
IdleCaller ==
    [pc |-> "idle", script |-> ScriptEmpty, result |-> "none",
     event |-> NoEvent,         \* handle_event: event
     elapsed |-> 0,             \* handle_event: elapsed (input_manager.rs:262)
     was_recording |-> FALSE,   \* handle_event: was_recording (input_manager.rs:205)
     was_playing |-> FALSE,     \* handle_event: was_playing (input_manager.rs:206)
     path |-> "",               \* check_and_execute: path (macro_trigger.rs:72)
     snapshot |-> <<>>,         \* stop_recording: the Vec it returns
     json |-> <<>>,             \* save_script: json; load_script: content
     parsed |-> <<>>,           \* load_script: the Result (<<>> is Err)
     updated |-> <<>>]          \* toggle_macro: updated (macro_trigger.rs:145)

NoWorker ==
    [pc |-> "none", script |-> ScriptEmpty, index |-> 0, remaining |-> 0,
     sleep_time |-> 0,
     \* history, not program state:
     stopped |-> FALSE,     \* stop_playback() was called while this worker was live
     failed |-> FALSE,      \* Enigo::new or a synthesis call failed
     passes |-> 0,          \* complete passes over the event list (saturating)
     last_synth |-> -1,     \* index of the event executed last, -1: none yet
     calls |-> <<>>]        \* the enigo calls execute_event made for it

InitWith(im) ==
    /\ is_playing = PlaybackState_new.is_playing
    /\ current_loop = PlaybackState_new.current_loop
    /\ current_event = PlaybackState_new.current_event
    /\ stop_requested = PlaybackState_new.stop_requested
    /\ caller = [c \in Callers |-> IdleCaller]
    /\ worker = [w \in Workers |-> NoWorker]
    /\ is_recording = RecordingState_new.is_recording
    /\ events = RecordingState_new.events
    /\ start_time = RecordingState_new.start_time
    /\ last_event_time = RecordingState_new.last_event_time
    /\ mouse_position = RecordingState_new.mouse_position
    /\ macro_active = MacroState_new.is_active
    /\ macros = MacroState_new.macros
    /\ hotkeys = HotkeyState_new
    /\ now = 0
    /\ is_running = im.is_running
    /\ app_handle = im.app_handle
    /\ listeners = im.listeners
    /\ last_move = <<>>
    /\ overlay = "hidden"
    /\ f9_pressed = <<>>

\* The process once tauri's setup hook has run init (lib.rs:448-461): the
\* singletons are as constructed and the listener thread is installed.
Init == InitWith(InputManager_init(InputManager_new, "app"))

\* The process before setup has called init: the singletons as constructed.
InitNew == InitWith(InputManager_new)

Live(w) == worker[w].pc \notin {"none", "done"}
LiveWorkers == {w \in Workers : Live(w)}
Spawned == {w \in Workers : worker[w].pc # "none"}
\* Calls that have passed the validations and will spawn a worker.
InFlightPlays == {c \in Callers : caller[c].pc \in
    {"start_counters", "start_stop", "start_playing", "spawn"}}

\* hide_overlay after the main window was shown (input_manager.rs:84-89,
\* 99-105, 117-124): with the app handle set, else nothing happens.
restore_windows == IF app_handle # <<>> THEN "hidden" ELSE overlay

(***************************************************************************)
(* play_script / play_events (player.rs:235-320), caller side              *)
(***************************************************************************)
\* player.rs:236-244: the call is made with `script`; play_script loads
\* is_playing, then tests events.is_empty().
PlayScriptCheckFrom(c, from, script) ==
    /\ caller[c].pc = from
    /\ Cardinality(Spawned) + Cardinality(InFlightPlays) < MaxWorkers
    /\ LET r == play_script_validate(is_playing, script) IN
        caller' = [caller EXCEPT ![c] =
            IF r = "Ok"
            THEN [IdleCaller EXCEPT !.pc = "start_counters", !.script = script]
            ELSE [IdleCaller EXCEPT !.pc = "return", !.result = r]]
    /\ UNCHANGED <<is_playing, current_loop, current_event, stop_requested, worker, recvars, macvars, envvars>>

PlayScriptCheck(c, script) == PlayScriptCheckFrom(c, "idle", script)

PlayScriptCall(c) ==
    \E script \in Scripts : PlayScriptCheck(c, script)

PlayEventsCall(c) ==
    \E event_list \in EventLists, speed \in Speeds :
        PlayScriptCheck(c, play_events_script(event_list, speed))

\* player.rs:43-44  *self.current_loop.lock() = 0; *self.current_event.lock() = 0;
\* (current_event is only ever stored, never loaded, so the two stores are
\* one step.)
StartStoreCounters(c) ==
    /\ caller[c].pc = "start_counters"
    /\ current_loop' = PlaybackState_start(PS).current_loop
    /\ current_event' = PlaybackState_start(PS).current_event
    /\ caller' = [caller EXCEPT ![c].pc = "start_stop"]
    /\ UNCHANGED <<is_playing, stop_requested, worker, recvars, macvars, envvars>>

\* player.rs:45  self.stop_requested.store(false)
StartStoreStop(c) ==
    /\ caller[c].pc = "start_stop"
    /\ stop_requested' = PlaybackState_start(PS).stop_requested
    /\ caller' = [caller EXCEPT ![c].pc = "start_playing"]
    /\ UNCHANGED <<is_playing, current_loop, current_event, worker, recvars, macvars, envvars>>

\* player.rs:46  self.is_playing.store(true)
StartStorePlaying(c) ==
    /\ caller[c].pc = "start_playing"
    /\ is_playing' = PlaybackState_start(PS).is_playing
    /\ caller' = [caller EXCEPT ![c].pc = "spawn"]
    /\ UNCHANGED <<current_loop, current_event, stop_requested, worker, recvars, macvars, envvars>>

\* player.rs:248, 309: thread::spawn(...); Ok(())
Spawn(c) ==
    /\ caller[c].pc = "spawn"
    /\ \E w \in Workers :
        /\ worker[w].pc = "none"
        /\ \A v \in Workers : v < w => worker[v].pc # "none"
        /\ worker' = [worker EXCEPT ![w] =
               [NoWorker EXCEPT !.pc = "init", !.script = caller[c].script]]
    /\ caller' = [caller EXCEPT ![c] =
           [IdleCaller EXCEPT !.pc = "return", !.result = "Ok"]]
    /\ UNCHANGED <<is_playing, current_loop, current_event, stop_requested, recvars, macvars, envvars>>

\* play_script returns its Result to the caller (player.rs:239, 243, 309).
Return(c) ==
    /\ caller[c].pc = "return"
    /\ caller' = [caller EXCEPT ![c] = IdleCaller]
    /\ UNCHANGED <<is_playing, current_loop, current_event, stop_requested, worker, recvars, macvars, envvars>>

(***************************************************************************)
(* stop_playback (player.rs:323-325, 49-52)                                *)
(***************************************************************************)
\* player.rs:50  self.stop_requested.store(true); `from` is where the calling
\* thread stands when it makes the call.
StopStoreRequestedFrom(c, from) ==
    /\ caller[c].pc = from
    /\ stop_requested' = PlaybackState_stop(PS).stop_requested
    /\ caller' = [caller EXCEPT ![c] =
           [IdleCaller EXCEPT !.pc = "stop_playing",
                              !.was_recording = caller[c].was_recording,
                              !.was_playing = caller[c].was_playing]]
    /\ worker' = [w \in Workers |->
           IF Live(w) THEN [worker[w] EXCEPT !.stopped = TRUE] ELSE worker[w]]
    /\ UNCHANGED <<is_playing, current_loop, current_event, recvars, macvars, envvars>>

\* The stop_playback command (lib.rs:120-132).
StopStoreRequested(c) == StopStoreRequestedFrom(c, "idle")

\* input_manager.rs:225-244: the end of the Escape arm: if was_recording ||
\* was_playing, the windows are restored and "emergency-stop" is emitted
\* (result = "emergency-stop" is history: the notification this call of
\* handle_event emitted).
EscapeReturn(c) ==
    IF caller[c].was_recording \/ caller[c].was_playing
    THEN [IdleCaller EXCEPT !.result = "emergency-stop"]
    ELSE IdleCaller

\* player.rs:51  self.is_playing.store(false); the F10 and Escape arms of the
\* hook restore the windows after it (input_manager.rs:160-167, 225-233).
StopStorePlaying(c) ==
    /\ caller[c].pc = "stop_playing"
    /\ is_playing' = PlaybackState_stop(PS).is_playing
    /\ caller' = [caller EXCEPT ![c] = EscapeReturn(c)]
    /\ overlay' = IF c = "hook" THEN restore_windows ELSE overlay
    /\ UNCHANGED <<current_loop, current_event, stop_requested, worker, recvars, macvars, hotkeys, now, inpvars, last_move, f9_pressed>>

(***************************************************************************)
(* The playback worker: the closure of play_script (player.rs:248-307)     *)
(***************************************************************************)
Script_of(w) == worker[w].script
Event_of(w) == Script_of(w).events[worker[w].index + 1]
is_infinite(script) == script.loop_config.count = 0

\* player.rs:250-258: Enigo::new succeeds, or fails and the worker finishes.
WorkerInit(w) ==
    /\ worker[w].pc = "init"
    /\ \E ok \in BOOLEAN :
        worker' = [worker EXCEPT ![w].pc = IF ok THEN "loop_top" ELSE "finish",
                                 ![w].failed = ~ok]
    /\ UNCHANGED <<is_playing, current_loop, current_event, stop_requested, caller, recvars, macvars, envvars>>

\* player.rs:272-277: increment_loop, then the loop-count test.
LoopTop(w) ==
    /\ worker[w].pc = "loop_top"
    /\ current_loop' = increment_loop(current_loop)
    /\ LET current_iteration == increment_loop(current_loop)
           loop_count == Script_of(w).loop_config.count
       IN worker' = [worker EXCEPT ![w].pc =
              IF ~is_infinite(Script_of(w)) /\ current_iteration > loop_count
              THEN "finish" ELSE "check_stop"]
    /\ UNCHANGED <<is_playing, current_event, stop_requested, caller, recvars, macvars, envvars>>

\* player.rs:279-284: should_stop() before the pass; else the for loop starts
\* (and ends at once over an empty list).
CheckStop(w) ==
    /\ worker[w].pc = "check_stop"
    /\ worker' = [worker EXCEPT
           ![w].pc = IF stop_requested THEN "finish"
                     ELSE IF Script_of(w).events = <<>> THEN "loop_delay"
                     ELSE "set_index",
           ![w].index = 0]
    /\ UNCHANGED <<is_playing, current_loop, current_event, stop_requested, caller, recvars, macvars, envvars>>

\* player.rs:285, 146-149: set_event_index(index); the adjusted delay.
SetIndex(w) ==
    /\ worker[w].pc = "set_index"
    /\ current_event' = worker[w].index
    /\ LET delay_ms == adjusted_delay(Event_of(w), Script_of(w).speed_multiplier)
       IN worker' = [worker EXCEPT
              ![w].pc = IF delay_ms > 0 THEN "wait_check" ELSE "pre_synth",
              ![w].remaining = delay_ms]
    /\ UNCHANGED <<is_playing, current_loop, stop_requested, caller, recvars, macvars, envvars>>

\* player.rs:153-162: while remaining > 0: should_stop(), else pick the slice.
WaitCheck(w) ==
    /\ worker[w].pc = "wait_check"
    /\ worker' = [worker EXCEPT
           ![w].pc = IF stop_requested THEN "finish" ELSE "sleeping",
           ![w].sleep_time = IF stop_requested THEN 0
                             ELSE IF worker[w].remaining > chunk_ms THEN chunk_ms
                             ELSE worker[w].remaining]
    /\ UNCHANGED <<is_playing, current_loop, current_event, stop_requested, caller, recvars, macvars, envvars>>

\* player.rs:163-164: thread::sleep(sleep_time) returns; remaining -= sleep_time.
Sleeping(w) ==
    /\ worker[w].pc = "sleeping"
    /\ LET left == worker[w].remaining - worker[w].sleep_time
       IN worker' = [worker EXCEPT
              ![w].pc = IF left > 0 THEN "wait_check" ELSE "pre_synth",
              ![w].remaining = left,
              ![w].sleep_time = 0]
    /\ UNCHANGED <<is_playing, current_loop, current_event, stop_requested, caller, recvars, macvars, envvars>>

\* player.rs:169-171: should_stop() immediately before synthesis.
PreSynth(w) ==
    /\ worker[w].pc = "pre_synth"
    /\ worker' = [worker EXCEPT ![w].pc = IF stop_requested THEN "finish" ELSE "synth"]
    /\ UNCHANGED <<is_playing, current_loop, current_event, stop_requested, caller, recvars, macvars, envvars>>

\* The special keys enigo has a key for (player.rs:102-132).
EnigoSpecialKeys ==
    {"Alt", "Backspace", "CapsLock", "ControlLeft", "ControlRight", "Delete",
     "DownArrow", "End", "Escape", "F1", "F2", "F3", "F4", "F5", "F6", "F7",
     "F8", "F9", "F10", "F11", "F12", "Home", "LeftArrow", "MetaLeft",
     "MetaRight", "PageDown", "PageUp", "Return", "RightArrow", "ShiftLeft",
     "ShiftRight", "Space", "Tab", "UpArrow"}

\* keyboard_key_to_enigo with a key for every special name.
keyboard_key_to_enigo_total(key) ==
    IF key.type = "Char" THEN <<[unicode |-> key.value]>> ELSE <<key.value>>

\* keyboard_key_to_enigo (player.rs:98-136): Some(enigo key) or None.
keyboard_key_to_enigo(key) ==
    IF key.type = "Char" THEN <<[unicode |-> key.value]>>
    ELSE IF key.value \in {"ControlLeft", "ControlRight"} THEN <<"Control">>
    ELSE IF key.value \in {"MetaLeft", "MetaRight"} THEN <<"Meta">>
    ELSE IF key.value \in {"ShiftLeft", "ShiftRight"} THEN <<"Shift">>
    ELSE IF key.value \in EnigoSpecialKeys THEN <<key.value>>
    ELSE <<>>

\* play_script always moving the pointer to the recorded position.
has_mouse_moves_always(script) == TRUE

\* player.rs:265-268  has_mouse_moves: any MouseMove among the events
has_mouse_moves(script) ==
    \E i \in 1..Len(script.events) : script.events[i].event_type = "MouseMove"

\* execute_event, the match (player.rs:173-229): the enigo calls it makes for
\* the event, in order.
enigo_calls(event, use_recorded_position) ==
    LET move == <<[call |-> "move_mouse", x |-> event.x, y |-> event.y]>>
        key(direction) ==
            LET enigo_key == keyboard_key_to_enigo(event.key)
            IN IF enigo_key # <<>>
               THEN <<[call |-> "key", key |-> enigo_key[1], direction |-> direction]>>
               ELSE <<>>
        button(direction) ==
            (IF use_recorded_position THEN move ELSE <<>>)
            \o <<[call |-> "button", button |-> event.button, direction |-> direction]>>
    IN IF event.event_type = "KeyPress" THEN key("Press")
       ELSE IF event.event_type = "KeyRelease" THEN key("Release")
       ELSE IF event.event_type = "MousePress" THEN button("Press")
       ELSE IF event.event_type = "MouseRelease" THEN button("Release")
       ELSE IF event.event_type = "MouseMove" THEN move
       ELSE (IF event.delta_y # 0
             THEN <<[call |-> "scroll", length |-> -event.delta_y, axis |-> "Vertical"]>>
             ELSE <<>>)
            \o (IF event.delta_x # 0
                THEN <<[call |-> "scroll", length |-> -event.delta_x, axis |-> "Horizontal"]>>
                ELSE <<>>)

\* The worker logs a failed enigo call and goes on with the next event.
Synth_ignoring_error(w) ==
    /\ worker[w].pc = "synth"
    /\ \E ok \in BOOLEAN :
        worker' = [worker EXCEPT ![w].pc = "post_event",
                                 ![w].failed = worker[w].failed \/ ~ok,
                                 ![w].last_synth = IF ok THEN worker[w].index ELSE @,
                                 ![w].calls = <<>>]
    /\ UNCHANGED <<is_playing, current_loop, current_event, stop_requested, caller, recvars, macvars, envvars>>

\* player.rs:173-231, 287-293: the enigo calls of the event succeed, or one
\* fails and the worker finishes; an event without a call cannot fail.
Synth(w) ==
    /\ worker[w].pc = "synth"
    /\ LET made == enigo_calls(Event_of(w), has_mouse_moves(Script_of(w)))
       IN \E ok \in (IF made = <<>> THEN {TRUE} ELSE BOOLEAN) :
        worker' = [worker EXCEPT ![w].pc = IF ok THEN "post_event" ELSE "finish",
                                 ![w].failed = worker[w].failed \/ ~ok,
                                 ![w].last_synth = IF ok THEN worker[w].index ELSE @,
                                 ![w].calls = IF ok THEN made ELSE <<>>]
    /\ UNCHANGED <<is_playing, current_loop, current_event, stop_requested, caller, recvars, macvars, envvars>>

\* player.rs:295-298: should_stop() after the event breaks the for loop;
\* otherwise the next event, or the end of the pass.
PostEvent(w) ==
    /\ worker[w].pc = "post_event"
    /\ LET last == worker[w].index + 1 = Len(Script_of(w).events)
       IN worker' = [worker EXCEPT
              ![w].pc = IF stop_requested \/ last THEN "loop_delay" ELSE "set_index",
              ![w].index = IF stop_requested \/ last THEN worker[w].index
                           ELSE worker[w].index + 1,
              ![w].passes = IF last THEN increment_loop(worker[w].passes)
                            ELSE worker[w].passes]
    /\ UNCHANGED <<is_playing, current_loop, current_event, stop_requested, caller, recvars, macvars, envvars>>

\* player.rs:301-303: the delay between loops, one thread::sleep.
LoopDelay(w) ==
    /\ worker[w].pc = "loop_delay"
    /\ LET wait == Script_of(w).loop_config.delay_between_ms > 0 /\ ~stop_requested
       IN worker' = [worker EXCEPT
              ![w].pc = IF wait THEN "loop_sleep" ELSE "loop_top",
              ![w].sleep_time = IF wait THEN Script_of(w).loop_config.delay_between_ms
                                ELSE 0]
    /\ UNCHANGED <<is_playing, current_loop, current_event, stop_requested, caller, recvars, macvars, envvars>>

\* player.rs:302: thread::sleep(delay_between_ms) returns.
LoopSleep(w) ==
    /\ worker[w].pc = "loop_sleep"
    /\ worker' = [worker EXCEPT ![w].pc = "loop_top", ![w].sleep_time = 0]
    /\ UNCHANGED <<is_playing, current_loop, current_event, stop_requested, caller, recvars, macvars, envvars>>

\* player.rs:69  finish(): self.is_playing.store(false)
FinishStore(w) ==
    /\ worker[w].pc = "finish"
    /\ is_playing' = FALSE
    /\ worker' = [worker EXCEPT ![w].pc = "finish_notify"]
    /\ UNCHANGED <<current_loop, current_event, stop_requested, caller, recvars, macvars, envvars>>

\* player.rs:72-82  finish(): on_playback_finish(); emit "playback-stopped";
\* the closure returns and the thread ends (its locals and history are dropped).
FinishNotify(w) ==
    /\ worker[w].pc = "finish_notify"
    /\ worker' = [worker EXCEPT ![w] = [NoWorker EXCEPT !.pc = "done"]]
    /\ overlay' = restore_windows
    /\ UNCHANGED <<is_playing, current_loop, current_event, stop_requested, caller, recvars, macvars, hotkeys, now, inpvars, last_move, f9_pressed>>

WorkerStep(w) ==
    \/ WorkerInit(w)
    \/ LoopTop(w)
    \/ CheckStop(w)
    \/ SetIndex(w)
    \/ WaitCheck(w)
    \/ Sleeping(w)
    \/ PreSynth(w)
    \/ Synth(w)
    \/ PostEvent(w)
    \/ LoopDelay(w)
    \/ LoopSleep(w)
    \/ FinishStore(w)
    \/ FinishNotify(w)

\* The steps of a play_script call that has been made (the thread runs on).
PlayStep(c) ==
    \/ StartStoreCounters(c)
    \/ StartStoreStop(c)
    \/ StartStorePlaying(c)
    \/ Spawn(c)
    \/ Return(c)

\* The steps of a play_script or stop_playback call that has been made.
CallStep(c) ==
    \/ PlayStep(c)
    \/ StopStorePlaying(c)

(***************************************************************************)
(* Recorder commands (recorder.rs:107-123, lib.rs:38-63)                   *)
(***************************************************************************)
\* start_recording() without the "already recording" test.
StartRecordingCheckFrom_unchecked(c, from) ==
    /\ caller[c].pc = from
    /\ caller' = [caller EXCEPT ![c] = [IdleCaller EXCEPT !.pc = "rec_clear"]]
    /\ overlay' = IF from = "idle" THEN "#f85149" ELSE overlay
    /\ UNCHANGED <<is_playing, current_loop, current_event, stop_requested, worker, recvars, macvars, hotkeys, now, inpvars, last_move, f9_pressed>>

\* recorder.rs:110-112  start_recording(): if state.is_recording() { Err }
\* Entered from idle it is the call of the start_recording command, which
\* has hidden the main window and shown the red overlay (lib.rs:40-46).
StartRecordingCheckFrom(c, from) ==
    /\ caller[c].pc = from
    /\ caller' = [caller EXCEPT ![c] =
           IF is_recording
           THEN [IdleCaller EXCEPT !.pc = "rec_return", !.result = "Already recording"]
           ELSE [IdleCaller EXCEPT !.pc = "rec_clear"]]
    /\ overlay' = IF from = "idle" THEN "#f85149" ELSE overlay
    /\ UNCHANGED <<is_playing, current_loop, current_event, stop_requested, worker, recvars, macvars, hotkeys, now, inpvars, last_move, f9_pressed>>

\* The start_recording command (lib.rs:38-48).
StartRecordingCall(c) == StartRecordingCheckFrom(c, "idle")

\* recorder.rs:44  start(): self.events.lock().clear()
RecStartClear(c) ==
    /\ caller[c].pc = "rec_clear"
    /\ events' = <<>>
    /\ caller' = [caller EXCEPT ![c].pc = "rec_time"]
    /\ UNCHANGED <<is_playing, current_loop, current_event, stop_requested, worker, is_recording, last_event_time, start_time, mouse_position, macvars, envvars>>

\* recorder.rs:45-46  start(): start_time and last_event_time = Some(now)
RecStartTime(c) ==
    /\ caller[c].pc = "rec_time"
    /\ start_time' = <<now>>
    /\ last_event_time' = <<now>>
    /\ caller' = [caller EXCEPT ![c].pc = "rec_flag"]
    /\ UNCHANGED <<is_playing, current_loop, current_event, stop_requested, worker, is_recording, events, mouse_position, macvars, envvars>>

\* recorder.rs:47, 115  start(): self.is_recording.store(true); Ok(())
RecStartFlag(c) ==
    /\ caller[c].pc = "rec_flag"
    /\ is_recording' = TRUE
    /\ caller' = [caller EXCEPT ![c] =
           [IdleCaller EXCEPT !.pc = "rec_return", !.result = "Ok"]]
    /\ UNCHANGED <<is_playing, current_loop, current_event, stop_requested, worker, events, last_event_time, start_time, mouse_position, macvars, envvars>>

\* The stop_recording command (lib.rs:52-63): it hides the overlay and shows
\* the main window; recorder.rs:121, 51  stop(): self.is_recording.store(false)
StopRecordingCall(c) ==
    /\ caller[c].pc = "idle"
    /\ is_recording' = FALSE
    /\ caller' = [caller EXCEPT ![c] = [IdleCaller EXCEPT !.pc = "rec_snapshot"]]
    /\ overlay' = "hidden"
    /\ UNCHANGED <<is_playing, current_loop, current_event, stop_requested, worker, events, last_event_time, start_time, mouse_position, macvars, hotkeys, now, inpvars, last_move, f9_pressed>>

\* recorder.rs:122, 60-62  state.get_events(): the snapshot returned
StopRecordingSnapshot(c) ==
    /\ caller[c].pc = "rec_snapshot"
    /\ caller' = [caller EXCEPT ![c] =
           [IdleCaller EXCEPT !.pc = "rec_return", !.snapshot = events]]
    /\ UNCHANGED <<is_playing, current_loop, current_event, stop_requested, worker, recvars, macvars, envvars>>

\* start_recording / stop_recording return to their caller.
RecReturn(c) ==
    /\ caller[c].pc = "rec_return"
    /\ caller' = [caller EXCEPT ![c] = IdleCaller]
    /\ UNCHANGED <<is_playing, current_loop, current_event, stop_requested, worker, recvars, macvars, envvars>>

RecStep(c) ==
    \/ RecStartClear(c)
    \/ RecStartTime(c)
    \/ RecStartFlag(c)
    \/ StopRecordingSnapshot(c)
    \/ RecReturn(c)

(***************************************************************************)
(* record_event_direct (recorder.rs:131-145, lib.rs:78-81)                 *)
(***************************************************************************)
\* ScriptEvent::set_delay_ms (script.rs:189-198)
set_delay_ms(event, new_delay) == [event EXCEPT !.delay_ms = new_delay]

\* recorder.rs:133  record_event_direct(event): if state.is_recording()
RecordEventDirectCall(c, event) ==
    /\ caller[c].pc = "idle"
    /\ Len(events) < MaxLog
    /\ caller' = [caller EXCEPT ![c] =
           IF is_recording
           THEN [IdleCaller EXCEPT !.pc = "direct_elapsed", !.event = event]
           ELSE IdleCaller]
    /\ UNCHANGED <<is_playing, current_loop, current_event, stop_requested, worker, recvars, macvars, envvars>>

\* recorder.rs:140-142  elapsed = get_elapsed_ms(); set_delay_ms(elapsed)
RecordEventDirectElapsed(c) ==
    /\ caller[c].pc = "direct_elapsed"
    /\ caller' = [caller EXCEPT ![c].pc = "direct_commit_check",
                                ![c].elapsed = get_elapsed_ms,
                                ![c].event = set_delay_ms(@, get_elapsed_ms)]
    /\ UNCHANGED <<is_playing, current_loop, current_event, stop_requested, worker, recvars, macvars, envvars>>

\* recorder.rs:143, 73-75  commit_event: if !self.is_recording() { return }
RecordEventDirectCommitCheck(c) ==
    /\ caller[c].pc = "direct_commit_check"
    /\ caller' = [caller EXCEPT ![c] =
           IF is_recording THEN [@ EXCEPT !.pc = "direct_commit"] ELSE IdleCaller]
    /\ UNCHANGED <<is_playing, current_loop, current_event, stop_requested, worker, recvars, macvars, envvars>>

\* recorder.rs:78-82  commit_event: last_event_time = now; events.push(event)
RecordEventDirectCommit(c) ==
    /\ caller[c].pc = "direct_commit"
    /\ last_event_time' = <<now>>
    /\ events' = Append(events, caller[c].event)
    /\ caller' = [caller EXCEPT ![c] = IdleCaller]
    /\ UNCHANGED <<is_playing, current_loop, current_event, stop_requested, worker, is_recording, start_time, mouse_position, macvars, envvars>>

RecordEventDirectStep(c) ==
    \/ RecordEventDirectElapsed(c)
    \/ RecordEventDirectCommitCheck(c)
    \/ RecordEventDirectCommit(c)

(***************************************************************************)
(* Macro commands (macro_trigger.rs:114-128, lib.rs:187-219)               *)
(***************************************************************************)
\* MacroState::set_active (macro_trigger.rs:37-39)
SetMacroListener(c, active) ==
    /\ caller[c].pc = "idle"
    /\ macro_active' = active
    /\ UNCHANGED <<is_playing, current_loop, current_event, stop_requested, caller, worker, recvars, macros, envvars>>

\* start_macro_listener / stop_macro_listener (macro_trigger.rs:114-123)
StartMacroListener(c) == SetMacroListener(c, TRUE)
StopMacroListener(c) == SetMacroListener(c, FALSE)

\* MacroState::add_macro (macro_trigger.rs:42-45)
AddMacro(c, macro_def) ==
    /\ caller[c].pc = "idle"
    /\ macros' = add_macro(macros, macro_def)
    /\ UNCHANGED <<is_playing, current_loop, current_event, stop_requested, caller, worker, recvars, macro_active, envvars>>

(***************************************************************************)
(* The input arbiter: handle_event (input_manager.rs:108-333)              *)
(***************************************************************************)
\* input_manager.rs:110-253, step 1: the hook thread receives raw event e and
\* matches it against the hotkeys; the first load of the matching arm is part
\* of the step.
HookHotkeys(e) ==
    /\ caller["hook"].pc = "idle"
    /\ listeners >= 1
    /\ Len(events) < MaxLog
    /\ caller' = [caller EXCEPT !["hook"] =
           IF e.type = "KeyPress" /\ e.key = "F9"
           THEN [IdleCaller EXCEPT !.pc =
                    IF is_recording THEN "f9_stop_recording" ELSE "f9_is_playing"]
           ELSE IF e.type = "KeyPress" /\ e.key = "F10"
           THEN [IdleCaller EXCEPT !.pc =
                    IF is_playing THEN "stop_requested" ELSE "f10_requested"]
           ELSE IF e.type = "KeyPress" /\ e.key = "Escape"
           THEN [IdleCaller EXCEPT !.pc = "esc_is_playing",
                                   !.was_recording = is_recording]
           ELSE [IdleCaller EXCEPT !.pc = "guard", !.event = e]]
    /\ last_move' = IF e.type = "MouseMove" THEN <<e.x, e.y>> ELSE last_move
    /\ UNCHANGED <<is_playing, current_loop, current_event, stop_requested, worker, recvars, macvars, hotkeys, now, inpvars, overlay, f9_pressed>>

\* input_manager.rs:115-133: F9 while recording: stop_recording() (the
\* snapshot is dropped), restore the windows, emit "recording-stopped".
HookF9StopRecording ==
    /\ caller["hook"].pc = "f9_stop_recording"
    /\ is_recording' = FALSE
    /\ caller' = [caller EXCEPT !["hook"] = IdleCaller]
    /\ overlay' = restore_windows
    /\ UNCHANGED <<is_playing, current_loop, current_event, stop_requested, worker, events, last_event_time, start_time, mouse_position, macvars, hotkeys, now, inpvars, last_move, f9_pressed>>

\* input_manager.rs:134-143: F9 while not recording: only if nothing plays,
\* show the overlay and call start_recording().
HookF9IsPlaying ==
    /\ caller["hook"].pc = "f9_is_playing"
    /\ caller' = [caller EXCEPT !["hook"] =
           IF is_playing THEN IdleCaller ELSE [IdleCaller EXCEPT !.pc = "rec_check"]]
    /\ overlay' = IF ~is_playing /\ app_handle # <<>> THEN "#f85149" ELSE overlay
    /\ UNCHANGED <<is_playing, current_loop, current_event, stop_requested, worker, recvars, macvars, hotkeys, now, inpvars, last_move, f9_pressed>>

\* input_manager.rs:143  recorder::start_recording()
HookStartRecording == StartRecordingCheckFrom("hook", "rec_check")

\* input_manager.rs:158  player::stop_playback() (F10 arm), and :212 (Escape)
HookStopStoreRequested == StopStoreRequestedFrom("hook", "stop_requested")

\* input_manager.rs:192-199: F10 while nothing plays: emit
\* "playback-requested"; return.
HookF10Requested ==
    /\ caller["hook"].pc = "f10_requested"
    /\ caller' = [caller EXCEPT !["hook"] = IdleCaller]
    /\ UNCHANGED <<is_playing, current_loop, current_event, stop_requested, worker, recvars, macvars, envvars>>

\* input_manager.rs:206-213: Escape: was_playing = is_playing(); then what
\* was active is stopped.
HookEscIsPlaying ==
    /\ caller["hook"].pc = "esc_is_playing"
    /\ caller' = [caller EXCEPT !["hook"] =
           IF caller["hook"].was_recording
           THEN [IdleCaller EXCEPT !.pc = "esc_stop_recording", !.was_playing = is_playing]
           ELSE IF is_playing
           THEN [IdleCaller EXCEPT !.pc = "stop_requested", !.was_playing = TRUE]
           ELSE IdleCaller]
    /\ UNCHANGED <<is_playing, current_loop, current_event, stop_requested, worker, recvars, macvars, envvars>>

\* input_manager.rs:208-210: if was_recording { stop_recording() }
HookEscStopRecording ==
    /\ caller["hook"].pc = "esc_stop_recording"
    /\ is_recording' = FALSE
    /\ caller' = [caller EXCEPT !["hook"] =
           IF caller["hook"].was_playing
           THEN [IdleCaller EXCEPT !.pc = "stop_requested",
                                   !.was_recording = TRUE, !.was_playing = TRUE]
           ELSE EscapeReturn("hook")]
    /\ overlay' = IF caller["hook"].was_playing THEN overlay ELSE restore_windows
    /\ UNCHANGED <<is_playing, current_loop, current_event, stop_requested, worker, events, last_event_time, start_time, mouse_position, macvars, hotkeys, now, inpvars, last_move, f9_pressed>>

\* handle_event without the playback guard.
HookGuard_absent ==
    /\ caller["hook"].pc = "guard"
    /\ caller' = [caller EXCEPT !["hook"].pc = "record"]
    /\ UNCHANGED <<is_playing, current_loop, current_event, stop_requested, worker, recvars, macvars, envvars>>

\* input_manager.rs:256-258, step 2: the playback guard.
HookGuard ==
    /\ caller["hook"].pc = "guard"
    /\ caller' = [caller EXCEPT !["hook"] =
           IF is_playing THEN IdleCaller ELSE [@ EXCEPT !.pc = "record"]]
    /\ UNCHANGED <<is_playing, current_loop, current_event, stop_requested, worker, recvars, macvars, envvars>>

\* input_manager.rs:261, step 3: if recorder::is_recording()
HookRecord ==
    /\ caller["hook"].pc = "record"
    /\ caller' = [caller EXCEPT !["hook"].pc =
           IF is_recording THEN "elapsed" ELSE "macro_active"]
    /\ UNCHANGED <<is_playing, current_loop, current_event, stop_requested, worker, recvars, macvars, envvars>>

\* input_manager.rs:262  let elapsed = get_elapsed_ms()
HookElapsed ==
    /\ caller["hook"].pc = "elapsed"
    /\ caller' = [caller EXCEPT !["hook"].pc = "commit_check",
                                !["hook"].elapsed = get_elapsed_ms]
    /\ UNCHANGED <<is_playing, current_loop, current_event, stop_requested, worker, recvars, macvars, envvars>>

\* The ScriptEvent the recording step builds from the raw event
\* (input_manager.rs:263-311).
recorded_event(e, elapsed, position) ==
    IF e.type = "KeyPress" THEN KeyPress(KeyboardKey_from(e.key), elapsed)
    ELSE IF e.type = "KeyRelease" THEN KeyRelease(KeyboardKey_from(e.key), elapsed)
    ELSE IF e.type = "ButtonPress"
    THEN MousePress(MouseButton_from(e.button), position[1], position[2], elapsed)
    ELSE IF e.type = "ButtonRelease"
    THEN MouseRelease(MouseButton_from(e.button), position[1], position[2], elapsed)
    ELSE IF e.type = "MouseMove" THEN MouseMove(e.x, e.y, elapsed)
    ELSE MouseScroll(e.delta_x, e.delta_y, elapsed)

\* input_manager.rs:263-311 and recorder.rs:73-75: a move updates the cursor
\* cache and is committed only if elapsed >= 20; commit_event returns at once
\* if recording has stopped.
HookCommitCheck ==
    /\ caller["hook"].pc = "commit_check"
    /\ LET e == caller["hook"].event
           throttled == e.type = "MouseMove" /\ caller["hook"].elapsed < throttle_ms
           commit == ~throttled /\ is_recording
       IN /\ mouse_position' =
                IF e.type = "MouseMove" THEN <<e.x, e.y>> ELSE mouse_position
          /\ caller' = [caller EXCEPT
                !["hook"].pc = IF commit THEN "commit" ELSE "macro_active",
                !["hook"].elapsed = IF commit THEN @ ELSE 0]
    /\ UNCHANGED <<is_playing, current_loop, current_event, stop_requested, worker, is_recording, events, start_time, last_event_time, macvars, envvars>>

\* recorder.rs:78-82  commit_event: last_event_time = now; events.push(event)
\* (result = "committed" is history: this call of handle_event has committed
\* its event.)
HookCommit ==
    /\ caller["hook"].pc = "commit"
    /\ last_event_time' = <<now>>
    /\ events' = Append(events,
           recorded_event(caller["hook"].event, caller["hook"].elapsed, mouse_position))
    /\ caller' = [caller EXCEPT !["hook"].pc = "macro_active",
                                !["hook"].elapsed = 0,
                                !["hook"].result = "committed"]
    /\ UNCHANGED <<is_playing, current_loop, current_event, stop_requested, worker, is_recording, start_time, mouse_position, macvars, envvars>>

\* input_manager.rs:316, step 4: macro_trigger::get_state().is_active()
HookMacroActive ==
    /\ caller["hook"].pc = "macro_active"
    /\ caller' = [caller EXCEPT !["hook"] =
           IF macro_active THEN [@ EXCEPT !.pc = "macro_recording"] ELSE IdleCaller]
    /\ UNCHANGED <<is_playing, current_loop, current_event, stop_requested, worker, recvars, macvars, envvars>>

\* The MacroTrigger the macro step builds (input_manager.rs:317-331); <<>>
\* for the events that are not a press.
trigger_of(e) ==
    IF e.type = "KeyPress" THEN <<TriggerKeyPress(KeyboardKey_from(e.key))>>
    ELSE IF e.type = "ButtonPress"
    THEN <<TriggerMousePress(MouseButton_from(e.button))>>
    ELSE <<>>

\* input_manager.rs:316-331: && !recorder::is_recording(); match event_type
HookMacroRecording ==
    /\ caller["hook"].pc = "macro_recording"
    /\ caller' = [caller EXCEPT !["hook"] =
           IF ~is_recording /\ trigger_of(caller["hook"].event) # <<>>
           THEN [@ EXCEPT !.pc = "check_and_execute"]
           ELSE IdleCaller]
    /\ UNCHANGED <<is_playing, current_loop, current_event, stop_requested, worker, recvars, macvars, envvars>>

\* macro_trigger.rs:65-67  check_and_execute: if !self.is_active() { return false }
CheckAndExecuteActive ==
    /\ caller["hook"].pc = "check_and_execute"
    /\ caller' = [caller EXCEPT !["hook"] =
           IF macro_active THEN [@ EXCEPT !.pc = "find_by_trigger"] ELSE IdleCaller]
    /\ UNCHANGED <<is_playing, current_loop, current_event, stop_requested, worker, recvars, macvars, envvars>>

\* check_and_execute firing every binding it finds, enabled or not.
CheckAndExecuteFind_any ==
    /\ caller["hook"].pc = "find_by_trigger"
    /\ LET found == find_by_trigger(trigger_of(caller["hook"].event)[1])
       IN IF found # <<>>
          THEN /\ caller["macro"].pc = "idle"
               /\ caller' = [caller EXCEPT
                      !["hook"] = IdleCaller,
                      !["macro"] = [IdleCaller EXCEPT !.pc = "macro_thread",
                                                      !.path = found[1].script_path]]
          ELSE caller' = [caller EXCEPT !["hook"] = IdleCaller]
    /\ UNCHANGED <<is_playing, current_loop, current_event, stop_requested, worker, recvars, macvars, envvars>>

\* macro_trigger.rs:69-90: find_by_trigger; an enabled binding with a path
\* spawns the macro thread. (One macro thread at a time.)
CheckAndExecuteFind ==
    /\ caller["hook"].pc = "find_by_trigger"
    /\ LET found == find_by_trigger(trigger_of(caller["hook"].event)[1])
           fires == /\ found # <<>>
                    /\ found[1].enabled
                    /\ found[1].script_path # ""
       IN IF fires
          THEN /\ caller["macro"].pc = "idle"
               /\ caller' = [caller EXCEPT
                      !["hook"] = IdleCaller,
                      !["macro"] = [IdleCaller EXCEPT !.pc = "macro_thread",
                                                      !.path = found[1].script_path]]
          ELSE caller' = [caller EXCEPT !["hook"] = IdleCaller]
    /\ UNCHANGED <<is_playing, current_loop, current_event, stop_requested, worker, recvars, macvars, envvars>>

\* macro_trigger.rs:76-85: the macro thread reads and parses the file and
\* calls play_script; on a read or parse error it ends.
MacroThreadRun ==
    LET read == read_script(caller["macro"].path) IN
        IF read # <<>>
        THEN PlayScriptCheckFrom("macro", "macro_thread", read[1])
        ELSE /\ caller["macro"].pc = "macro_thread"
             /\ caller' = [caller EXCEPT !["macro"] = IdleCaller]
             /\ UNCHANGED <<is_playing, current_loop, current_event, stop_requested, worker, recvars, macvars, envvars>>

HookStep ==
    \/ HookF9StopRecording
    \/ HookF9IsPlaying
    \/ HookStartRecording
    \/ HookStopStoreRequested
    \/ HookF10Requested
    \/ HookEscIsPlaying
    \/ HookEscStopRecording
    \/ HookGuard
    \/ HookRecord
    \/ HookElapsed
    \/ HookCommitCheck
    \/ HookCommit
    \/ HookMacroActive
    \/ HookMacroRecording
    \/ CheckAndExecuteActive
    \/ CheckAndExecuteFind

Next ==
    \/ \E c \in PlayCallers : PlayScriptCall(c)
    \/ \E c \in EventsCallers : PlayEventsCall(c)
    \/ \E c \in StopCallers : StopStoreRequested(c)
    \/ \E c \in Callers : CallStep(c)
    \/ \E w \in Workers : WorkerStep(w)

Spec == Init /\ [][Next]_vars

(***************************************************************************)
(* Narrower specifications of the same program                             *)
(***************************************************************************)
\* No thread ever calls stop_playback: every run is a run that is not stopped.
NoStopNext ==
    \/ \E c \in PlayCallers : PlayScriptCall(c)
    \/ \E c \in EventsCallers : PlayEventsCall(c)
    \/ \E c \in PlayCallers : PlayStep(c)
    \/ \E w \in Workers : WorkerStep(w)

NoStopSpec == Init /\ [][NoStopNext]_vars

\* Only the command surface calls, one command after the other (no two calls
\* overlap); running threads keep being scheduled.
SeqNext ==
    \/ PlayScriptCall("cmd")
    \/ StopStoreRequested("cmd")
    \/ CallStep("cmd")
    \/ \E w \in Workers : WorkerStep(w)

SeqFairSpec ==
    /\ Init /\ [][SeqNext]_vars
    /\ WF_vars(CallStep("cmd"))
    /\ \A w \in Workers : WF_vars(WorkerStep(w))

\* Initialization of the arbiter, from before setup: threads call init, also
\* concurrently; once the listener thread is installed it handles F9 presses
\* and releases.
IM == [is_running |-> is_running, app_handle |-> app_handle, listeners |-> listeners]

\* input_manager.rs:45  manager.set_app_handle(app_handle)
InputInitSetHandle(c, handle) ==
    /\ caller[c].pc = "idle"
    /\ app_handle' = <<handle>>
    /\ caller' = [caller EXCEPT ![c] = [IdleCaller EXCEPT !.pc = "init_swap"]]
    /\ UNCHANGED <<is_playing, current_loop, current_event, stop_requested, worker, recvars, macvars, hotkeys, now, is_running, listeners, last_move, overlay, f9_pressed>>

\* input_manager.rs:47-60  is_running.swap(true); thread::spawn on the first
InputInitSwap(c) ==
    /\ caller[c].pc = "init_swap"
    /\ is_running' = init_swap(IM).is_running
    /\ listeners' = init_swap(IM).listeners
    /\ caller' = [caller EXCEPT ![c] = IdleCaller]
    /\ UNCHANGED <<is_playing, current_loop, current_event, stop_requested, worker, recvars, macvars, hotkeys, now, app_handle, last_move, overlay, f9_pressed>>

InitEvents == {RawKeyPress("F9"), RawKeyRelease("F9")}

InitNext ==
    \/ \E c \in {"cmd", "macro"}, handle \in Handles : InputInitSetHandle(c, handle)
    \/ \E c \in {"cmd", "macro"} : InputInitSwap(c)
    \/ \E e \in InitEvents : HookHotkeys(e)
    \/ HookF9StopRecording
    \/ HookF9IsPlaying
    \/ HookStartRecording
    \/ RecStartClear("hook")
    \/ RecStartTime("hook")
    \/ RecStartFlag("hook")
    \/ RecReturn("hook")
    \/ HookGuard
    \/ HookRecord
    \/ HookElapsed
    \/ HookCommitCheck
    \/ HookCommit
    \/ HookMacroActive

InitSpec == InitNew /\ [][InitNext]_vars

\* Runs of scripts with keys enigo has no key for and with button events,
\* with and without pointer moves; no run is stopped.
ScriptKeys ==
    [events |-> <<KeyPress(Special("Insert"), 150), KeyRelease(Special("Insert"), 0),
                  KeyPress(Char("a"), 0)>>,
     loop_config |-> [count |-> 2, delay_between_ms |-> 50],
     speed_multiplier |-> <<1, 1>>]
ScriptClick ==
    [Script_default EXCEPT !.events =
        <<MousePress("Left", 3, 4, 0), MouseRelease("Left", 3, 4, 50)>>]
ScriptMoveClick ==
    [Script_default EXCEPT !.events =
        <<MouseMove(1, 2, 0), MousePress("Left", 3, 4, 0),
          MouseRelease("Left", 5, 6, 0), MouseScroll(0, 1, 0)>>]
SynthScripts == {ScriptKeys, ScriptClick, ScriptMoveClick}

SynthNext ==
    \/ \E script \in SynthScripts : PlayScriptCheck("cmd", script)
    \/ PlayStep("cmd")
    \/ \E w \in Workers : WorkerStep(w)

SynthSpec == Init /\ [][SynthNext]_vars

\* The play_script and play_events commands (lib.rs:88-117) hide the main
\* window and show the blue overlay, then call player::play_script or
\* player::play_events with their arguments.
CmdShowOverlay(c) ==
    /\ caller[c].pc = "idle"
    /\ Cardinality(Spawned) + Cardinality(InFlightPlays) < MaxWorkers
    /\ \E script \in Scripts \cup {play_events_script(event_list, speed) :
                                     event_list \in EventLists, speed \in Speeds} :
           caller' = [caller EXCEPT ![c] = [IdleCaller EXCEPT !.pc = "cmd_play", !.script = script]]
    /\ overlay' = "#58a6ff"
    /\ UNCHANGED <<is_playing, current_loop, current_event, stop_requested, worker, recvars, macvars, hotkeys, now, inpvars, last_move, f9_pressed>>

\* lib.rs:98, 116  player::play_script(script), player::play_events(..)
CmdPlayScript(c) == PlayScriptCheckFrom(c, "cmd_play", caller[c].script)

\* The stop_playback command (lib.rs:120-132) hides the overlay and shows the
\* main window, then calls player::stop_playback().
CmdHideOverlay(c) ==
    /\ caller[c].pc = "idle"
    /\ caller' = [caller EXCEPT ![c] = [IdleCaller EXCEPT !.pc = "cmd_stop"]]
    /\ overlay' = "hidden"
    /\ UNCHANGED <<is_playing, current_loop, current_event, stop_requested, worker, recvars, macvars, hotkeys, now, inpvars, last_move, f9_pressed>>

\* lib.rs:131  player::stop_playback()
CmdStopPlayback(c) == StopStoreRequestedFrom(c, "cmd_stop")

\* The command surface with its windows: the play_script, play_events,
\* stop_playback, start_recording and stop_recording commands, one at a time
\* (synchronous commands), and the workers the play commands spawn.
GuiNext ==
    \/ CmdShowOverlay("cmd")
    \/ CmdPlayScript("cmd")
    \/ CmdHideOverlay("cmd")
    \/ CmdStopPlayback("cmd")
    \/ CallStep("cmd")
    \/ StartRecordingCall("cmd")
    \/ StopRecordingCall("cmd")
    \/ RecStep("cmd")
    \/ \E w \in Workers : WorkerStep(w)

GuiSpec == Init /\ [][GuiNext]_vars

\* One physical press of F9: the raw hook is given the event and begins its
\* F9 arm (input_manager.rs:112-116), the global-shortcut handler registered
\* for F9 (lib.rs:452-453) is given the shortcut on the thread of the
\* commands.
PressF9 ==
    /\ caller["hook"].pc = "idle"
    /\ caller["cmd"].pc = "idle"
    /\ listeners >= 1
    /\ caller' = [caller EXCEPT
           !["hook"] = [IdleCaller EXCEPT !.pc =
                          IF is_recording THEN "f9_stop_recording" ELSE "f9_is_playing"],
           !["cmd"] = [IdleCaller EXCEPT !.pc = "shortcut_f9"]]
    /\ f9_pressed' = <<is_recording>>
    /\ UNCHANGED <<is_playing, current_loop, current_event, stop_requested, worker, recvars, macvars, hotkeys, now, inpvars, last_move, overlay>>

\* lib.rs:368-370  the handler: if recorder::is_recording()
ShortcutF9IsRecording ==
    /\ caller["cmd"].pc = "shortcut_f9"
    /\ caller' = [caller EXCEPT !["cmd"].pc =
           IF is_recording THEN "shortcut_stop_recording" ELSE "shortcut_is_playing"]
    /\ UNCHANGED <<is_playing, current_loop, current_event, stop_requested, worker, recvars, macvars, envvars>>

\* lib.rs:371, 52-63  stop_recording(app): the command hides the overlay,
\* shows the main window and calls recorder::stop_recording().
ShortcutStopRecording ==
    /\ caller["cmd"].pc = "shortcut_stop_recording"
    /\ is_recording' = FALSE
    /\ caller' = [caller EXCEPT !["cmd"] = [IdleCaller EXCEPT !.pc = "rec_snapshot"]]
    /\ overlay' = "hidden"
    /\ UNCHANGED <<is_playing, current_loop, current_event, stop_requested, worker, events, last_event_time, start_time, mouse_position, macvars, hotkeys, now, inpvars, last_move, f9_pressed>>

\* lib.rs:380-381, 38-46  else if !player::is_playing(): start_recording(app)
\* hides the main window and shows the red overlay.
ShortcutF9IsPlaying ==
    /\ caller["cmd"].pc = "shortcut_is_playing"
    /\ caller' = [caller EXCEPT !["cmd"] =
           IF is_playing THEN IdleCaller ELSE [IdleCaller EXCEPT !.pc = "rec_check"]]
    /\ overlay' = IF ~is_playing THEN "#f85149" ELSE overlay
    /\ UNCHANGED <<is_playing, current_loop, current_event, stop_requested, worker, recvars, macvars, hotkeys, now, inpvars, last_move, f9_pressed>>

\* lib.rs:47  recorder::start_recording()
ShortcutStartRecording == StartRecordingCheckFrom("cmd", "rec_check")

\* Physical presses of F9 with nothing playing: the raw hook and the
\* global-shortcut handler each run their F9 branch; the hook also handles
\* presses of an ordinary key.
ShortcutNext ==
    \/ PressF9
    \/ ShortcutF9IsRecording
    \/ ShortcutStopRecording
    \/ ShortcutF9IsPlaying
    \/ ShortcutStartRecording
    \/ HookF9StopRecording
    \/ HookF9IsPlaying
    \/ HookStartRecording
    \/ \E c \in {"cmd", "hook"} : RecStep(c)
    \/ HookHotkeys(RawKeyPress("KeyA"))
    \/ HookGuard
    \/ HookRecord
    \/ HookElapsed
    \/ HookCommitCheck
    \/ HookCommit
    \/ HookMacroActive

ShortcutSpec == Init /\ [][ShortcutNext]_vars

\* hotkey.rs:63-79  set_hotkeys: each Some(key) replaces its binding. (No
\* other function locks the three fields, so the three stores are one step.)
set_hotkeys(state, recording, playback, stop) ==
    [recording_key |-> IF recording # <<>> THEN recording[1] ELSE state.recording_key,
     playback_key  |-> IF playback # <<>> THEN playback[1] ELSE state.playback_key,
     stop_key      |-> IF stop # <<>> THEN stop[1] ELSE state.stop_key]

RebindKeys == {"KeyA", "F8"}

SetHotkeys(c) ==
    /\ caller[c].pc = "idle"
    /\ \E recording, playback, stop \in {<<>>} \cup {<<key>> : key \in RebindKeys} :
           hotkeys' = set_hotkeys(hotkeys, recording, playback, stop)
    /\ UNCHANGED <<is_playing, current_loop, current_event, stop_requested, caller, worker, recvars, macvars, now, inpvars, last_move, overlay, f9_pressed>>

\* The arbiter under set_hotkeys: the command surface rebinds the hotkeys,
\* the hook thread handles presses of the default and of the rebound keys.
KeyEvents ==
    {RawKeyPress("F9"), RawKeyPress("F10"), RawKeyPress("Escape"),
     RawKeyPress("KeyA"), RawKeyPress("F8")}

KeyNext ==
    \/ SetHotkeys("cmd")
    \/ \E e \in KeyEvents : HookHotkeys(e)
    \/ HookF9StopRecording
    \/ HookF9IsPlaying
    \/ HookStartRecording
    \/ RecStartClear("hook")
    \/ RecStartTime("hook")
    \/ RecStartFlag("hook")
    \/ RecReturn("hook")
    \/ HookF10Requested
    \/ HookEscIsPlaying
    \/ HookEscStopRecording
    \/ HookGuard
    \/ HookRecord
    \/ HookElapsed
    \/ HookCommitCheck
    \/ HookCommit
    \/ HookMacroActive

KeySpec == Init /\ [][KeyNext]_vars

\* MacroState::remove_macro (macro_trigger.rs:47-49): retain(|_, m| m.id != id)
remove_macro(table, id) ==
    [k \in MacroKeys |->
        IF table[k] # <<>> /\ table[k][1].id = id THEN <<>> ELSE table[k]]

\* The remove_macro command (lib.rs:192-195).
RemoveMacro(c, id) ==
    /\ caller[c].pc = "idle"
    /\ macros' = remove_macro(macros, id)
    /\ UNCHANGED <<is_playing, current_loop, current_event, stop_requested, caller, worker, recvars, macro_active, envvars>>

\* macro_trigger.rs:141-147  toggle_macro: under the read lock,
\* values().find(|m| m.id == id) (any of the values with that id, the
\* iteration order of the HashMap is unspecified); the clone with the new
\* flag is kept and the lock dropped. An unknown id ends the call.
ToggleMacroFind(c, id, enabled) ==
    /\ caller[c].pc = "idle"
    /\ LET found == {k \in MacroKeys : macros[k] # <<>> /\ macros[k][1].id = id}
       IN IF found = {}
          THEN UNCHANGED caller
          ELSE \E k \in found :
                  caller' = [caller EXCEPT ![c] =
                     [IdleCaller EXCEPT !.pc = "toggle_insert",
                                        !.updated = <<[macros[k][1] EXCEPT !.enabled = enabled]>>]]
    /\ UNCHANGED <<is_playing, current_loop, current_event, stop_requested, worker, recvars, macvars, envvars>>

\* toggle_macro replacing the table by the one binding it has updated.
ToggleMacroInsert_only(c) ==
    /\ caller[c].pc = "toggle_insert"
    /\ macros' = add_macro(MacroState_new.macros, caller[c].updated[1])
    /\ caller' = [caller EXCEPT ![c] = IdleCaller]
    /\ UNCHANGED <<is_playing, current_loop, current_event, stop_requested, worker, recvars, macro_active, envvars>>

\* macro_trigger.rs:148  state.add_macro(updated)
ToggleMacroInsert(c) ==
    /\ caller[c].pc = "toggle_insert"
    /\ macros' = add_macro(macros, caller[c].updated[1])
    /\ caller' = [caller EXCEPT ![c] = IdleCaller]
    /\ UNCHANGED <<is_playing, current_loop, current_event, stop_requested, worker, recvars, macro_active, envvars>>

\* The definitions the frontend passes to add_macro: those of MacroDefs, the
\* definition of MacroA bound to another trigger, and one without an action.
MacroMoved == [MacroA EXCEPT !.trigger = TriggerKeyPress(Special("F9"))]
MacroNoAction ==
    [id |-> "macro_4", name |-> "none", trigger |-> TriggerKeyPress(Char("a")),
     script_path |-> "", enabled |-> TRUE]
TableDefs == MacroDefs \cup {MacroMoved, MacroNoAction}
TableIds == {m.id : m \in TableDefs} \cup {"macro_0"}

\* The macro table under its commands: the threads of writers add, remove
\* and toggle bindings and switch macro listening, the hook thread handles
\* presses of the bound key, the macro thread a binding fires starts its run.
MacroStep(writers) ==
    \/ \E c \in writers, macro_def \in TableDefs : AddMacro(c, macro_def)
    \/ \E c \in writers, id \in TableIds : RemoveMacro(c, id)
    \/ \E c \in writers, id \in TableIds, enabled \in BOOLEAN :
           ToggleMacroFind(c, id, enabled)
    \/ \E c \in writers : ToggleMacroInsert(c)
    \/ StartMacroListener("cmd")
    \/ StopMacroListener("cmd")
    \/ HookHotkeys(RawKeyPress("KeyA"))
    \/ HookGuard
    \/ HookRecord
    \/ HookMacroActive
    \/ HookMacroRecording
    \/ CheckAndExecuteActive
    \/ CheckAndExecuteFind
    \/ MacroThreadRun
    \/ PlayStep("macro")

\* The commands one at a time, on the command thread.
TableNext == MacroStep({"cmd"})

TableSpec == Init /\ [][TableNext]_vars

\* The pub functions of the table called from two threads at once.
MacroNext == MacroStep({"cmd", "cmd2"})

MacroSpec == Init /\ [][MacroNext]_vars

\* The arbiter with the recorder and the macro table: the hook thread handles
\* raw events, the command surface starts and stops recording and macro
\* listening and binds macros, a bound macro starts a playback run. The
\* workers the runs spawn are not scheduled here (their steps are in Spec):
\* a run ends when the F10 or the Escape arm stops it.
ArbEvents ==
    {RawKeyPress("F9"), RawKeyRelease("F9"), RawKeyPress("F10"),
     RawKeyPress("Escape"), RawKeyPress("KeyA")}

ArbNext ==
    \/ \E e \in ArbEvents : HookHotkeys(e)
    \/ HookStep
    \/ StartRecordingCall("cmd")
    \/ StopRecordingCall("cmd")
    \/ \E c \in {"cmd", "hook"} : RecStep(c)
    \/ StartMacroListener("cmd")
    \/ StopMacroListener("cmd")
    \/ \E macro_def \in MacroDefs : AddMacro("cmd", macro_def)
    \/ MacroThreadRun
    \/ \E c \in {"macro", "hook"} : CallStep(c)

ArbSpec == Init /\ [][ArbNext]_vars

\* The recorder under a clock: the hook thread handles key presses, pointer
\* moves and button presses, the command surface starts and stops recording
\* and records events of the frontend. Instant::now() advances between the
\* handlers and commands: a handler or command runs in less than the clock's
\* resolution, but the threads interleave.
Tick ==
    /\ now + tick_ms <= MaxNow
    /\ \A c \in Callers : caller[c].pc = "idle"
    /\ now' = now + tick_ms
    /\ UNCHANGED <<is_playing, current_loop, current_event, stop_requested, caller, worker, recvars, macvars, hotkeys, inpvars, last_move, overlay, f9_pressed>>

RecEvents == {RawKeyPress("KeyA"), RawMouseMove(5, 7), RawButtonPress("Left")}

\* The events the frontend hands to record_frontend_event; the delay it
\* supplies is its own.
DirectEvents == {KeyPress(Char("b"), 999)}

RecNext ==
    \/ Tick
    \/ \E e \in RecEvents : HookHotkeys(e)
    \/ HookGuard
    \/ HookRecord
    \/ HookElapsed
    \/ HookCommitCheck
    \/ HookCommit
    \/ HookMacroActive
    \/ StartRecordingCall("cmd")
    \/ StopRecordingCall("cmd")
    \/ RecStep("cmd")
    \/ \E event \in DirectEvents : RecordEventDirectCall("cmd", event)
    \/ RecordEventDirectStep("cmd")

RecSpec == Init /\ [][RecNext]_vars

(***************************************************************************)
(* Script files: serde's derived Serialize / Deserialize (script.rs:7-9,    *)
(* 46-47, 140-141, 226-227, 245-246) and save_script / load_script          *)
(* (lib.rs:146-160). A JSON object is a record, a JSON array a sequence, a  *)
(* JSON string a string; numbers are finite (a script's numbers come from   *)
(* JSON or from the input hook).                                            *)
(***************************************************************************)
\* MouseButton serialized under its variant name as written.
MouseButton_to_json_verbatim(button) == button

\* #[serde(rename_all = "lowercase")] enum MouseButton (script.rs:8-17):
\* the string a variant serializes to.
MouseButton_to_json(button) ==
    CASE button = "Left" -> "left"
      [] button = "Right" -> "right"
      [] button = "Middle" -> "middle"
      [] button = "Back" -> "back"
      [] button = "Forward" -> "forward"
      [] button = "Unknown" -> "unknown"

\* Deserialize for MouseButton (script.rs:8-17): the variant whose renamed
\* name is the string, or an error (<<>>).
MouseButton_from_json(str) ==
    CASE str = "left" -> <<"Left">>
      [] str = "right" -> <<"Right">>
      [] str = "middle" -> <<"Middle">>
      [] str = "back" -> <<"Back">>
      [] str = "forward" -> <<"Forward">>
      [] str = "unknown" -> <<"Unknown">>
      [] OTHER -> <<>>

\* #[serde(tag = "event_type")] enum ScriptEvent (script.rs:140-173): the
\* variant's fields beside the tag; KeyboardKey is {"type", "value"}
\* (script.rs:47).
ScriptEvent_to_json(event) ==
    IF event.event_type \in {"MousePress", "MouseRelease"}
    THEN [event_type |-> event.event_type,
          button |-> MouseButton_to_json(event.button),
          x |-> event.x, y |-> event.y, delay_ms |-> event.delay_ms]
    ELSE event

\* Deserialize for ScriptEvent: by the tag, then the variant's fields; <<>> if
\* the tag names no variant or a field does not parse.
ScriptEvent_from_json(obj) ==
    IF obj.event_type \in {"MousePress", "MouseRelease"}
    THEN LET button == MouseButton_from_json(obj.button)
         IN IF button = <<>> THEN <<>>
            ELSE <<[event_type |-> obj.event_type, button |-> button[1],
                    x |-> obj.x, y |-> obj.y, delay_ms |-> obj.delay_ms]>>
    ELSE IF obj.event_type \in {"KeyPress", "KeyRelease", "MouseMove", "MouseScroll"}
    THEN <<obj>>
    ELSE <<>>

\* chrono's Serialize for DateTime<Utc>: the RFC 3339 string of the instants
\* the model uses (seconds and nanoseconds since the epoch).
DateTime_to_json(t) ==
    CASE t = [secs |-> 0, nanos |-> 0] -> "1970-01-01T00:00:00Z"
      [] t = [secs |-> 1, nanos |-> 5] -> "1970-01-01T00:00:01.000000005Z"

\* chrono's Deserialize for DateTime<Utc>.
DateTime_from_json(str) ==
    CASE str = "1970-01-01T00:00:00Z" -> <<[secs |-> 0, nanos |-> 0]>>
      [] str = "1970-01-01T00:00:01.000000005Z" -> <<[secs |-> 1, nanos |-> 5]>>
      [] OTHER -> <<>>

\* Serialize for Script (script.rs:245-261), as serde_json::to_string_pretty
\* writes it (lib.rs:149-150).
Script_to_json(script) ==
    [name |-> script.name, description |-> script.description,
     created_at |-> DateTime_to_json(script.created_at),
     modified_at |-> DateTime_to_json(script.modified_at),
     events |-> [i \in 1..Len(script.events) |-> ScriptEvent_to_json(script.events[i])],
     loop_config |-> script.loop_config,
     speed_multiplier |-> script.speed_multiplier]

\* Deserialize for Script, as serde_json::from_str reads it (lib.rs:158-159):
\* <<script>>, or <<>> for a parse error.
Script_from_json(obj) ==
    LET created == DateTime_from_json(obj.created_at)
        modified == DateTime_from_json(obj.modified_at)
        parsed_events == [i \in 1..Len(obj.events) |-> ScriptEvent_from_json(obj.events[i])]
    IN IF \/ created = <<>> \/ modified = <<>>
          \/ \E i \in 1..Len(obj.events) : parsed_events[i] = <<>>
       THEN <<>>
       ELSE <<[name |-> obj.name, description |-> obj.description,
               created_at |-> created[1], modified_at |-> modified[1],
               events |-> [i \in 1..Len(obj.events) |-> parsed_events[i][1]],
               loop_config |-> obj.loop_config,
               speed_multiplier |-> obj.speed_multiplier]>>

\* The scripts the frontend saves: every event variant, every button.
FileEventLists ==
    {<<>>,
     <<KeyPress(Char("a"), 0), KeyRelease(Special("F9"), 50)>>,
     <<MouseMove(5, 7, 20), MouseScroll(0, -1, 30)>>}
    \cup {<<MousePress(button, 5, 7, 10), MouseRelease(button, 5, 7, 0)>> :
             button \in {"Left", "Right", "Middle", "Back", "Forward", "Unknown"}}

FileScripts ==
    [name : {"Test", "Untitled Script"}, description : {""},
     created_at : {[secs |-> 0, nanos |-> 0]},
     modified_at : {[secs |-> 0, nanos |-> 0], [secs |-> 1, nanos |-> 5]},
     events : FileEventLists,
     loop_config : {LoopConfig_default, [count |-> 0, delay_between_ms |-> 150]},
     speed_multiplier : {<<1, 1>>, <<1, 2>>}]

\* lib.rs:146-152  save_script(script, path): the JSON written to the file.
SaveScript(c, script) ==
    /\ caller[c].pc = "idle"
    /\ caller' = [caller EXCEPT ![c] =
           [IdleCaller EXCEPT !.pc = "saved", !.script = script,
                              !.json = <<Script_to_json(script)>>]]
    /\ UNCHANGED <<is_playing, current_loop, current_event, stop_requested, worker, recvars, macvars, envvars>>

\* lib.rs:155-161  load_script(path) of the file just written.
LoadScript(c) ==
    /\ caller[c].pc = "saved"
    /\ caller' = [caller EXCEPT ![c].pc = "loaded",
                                ![c].parsed = Script_from_json(caller[c].json[1])]
    /\ UNCHANGED <<is_playing, current_loop, current_event, stop_requested, worker, recvars, macvars, envvars>>

\* load_script returns.
LoadReturn(c) ==
    /\ caller[c].pc = "loaded"
    /\ caller' = [caller EXCEPT ![c] = IdleCaller]
    /\ UNCHANGED <<is_playing, current_loop, current_event, stop_requested, worker, recvars, macvars, envvars>>

FileNext ==
    \/ \E script \in FileScripts : SaveScript("cmd", script)
    \/ LoadScript("cmd")
    \/ LoadReturn("cmd")

FileSpec == Init /\ [][FileNext]_vars

(***************************************************************************)
(* Claims                                                                  *)
(***************************************************************************)
\* A step in which caller c makes a play_script / play_events call and the
\* validations of player.rs:238-244 are decided.
Validates(c) ==
    /\ caller[c].pc = "idle"
    /\ caller'[c].pc \in {"return", "start_counters"}

PlaybackFrame ==
    /\ is_playing' = is_playing
    /\ current_loop' = current_loop
    /\ current_event' = current_event
    /\ stop_requested' = stop_requested

\* C1: in every reachable state at most one playback worker thread is live.
C1_AtMostOneWorker == Cardinality(LiveWorkers) <= 1

\* C2: a play_script call made while is_playing() is true returns "Already
\* playing", spawns no worker and leaves current_loop, current_event and
\* stop_requested (and is_playing) as they were.
C2_RejectedWhilePlaying ==
    [][\A c \in Callers :
         (Validates(c) /\ is_playing) =>
            /\ caller'[c].pc = "return"
            /\ caller'[c].result = "Already playing"
            /\ worker' = worker
            /\ PlaybackFrame]_vars

\* A call has just been rejected with "Already playing" while a worker runs.
C2_Witness ==
    \E c \in Callers, w \in Workers :
        /\ caller[c].pc = "return"
        /\ caller[c].result = "Already playing"
        /\ is_playing
        /\ Live(w)

\* C3: play_script marks playback active atomically with its "already
\* playing" check: no call passes the check while another call has passed it
\* and has not yet stored is_playing = true (so of two concurrent calls from
\* the idle state exactly one returns Ok, the other "Already playing").
C3_CheckAndMarkAtomic ==
    [][\A c \in Callers :
         (Validates(c) /\ caller'[c].pc = "start_counters") =>
            \A d \in Callers \ {c} :
                caller[d].pc \notin {"start_counters", "start_stop", "start_playing"}]_vars

\* C4: play_script on a script with no events returns an error, never
\* proceeds to start() and the spawn, and leaves is_playing and the loop /
\* event counters and the stop flag as they were (is_playing stays false when
\* nothing is playing, and the error then is "Script has no events").
C4_EmptyRejected ==
    [][\A c \in Callers :
         Validates(c) =>
            /\ caller'[c].pc = "start_counters" => caller'[c].script.events # <<>>
            /\ caller'[c].pc = "return" =>
                /\ caller'[c].result \in {"Already playing", "Script has no events"}
                /\ caller'[c].result = "Script has no events" <=> ~is_playing
                /\ worker' = worker
                /\ PlaybackFrame]_vars

\* An empty script has just been rejected; nothing is playing, nothing spawned.
C4_Witness ==
    \E c \in Callers :
        /\ caller[c].pc = "return"
        /\ caller[c].result = "Script has no events"
        /\ ~is_playing
        /\ Spawned = {}

\* C5: a run with loop_config.count = N > 0 that is not stopped (NoStopSpec)
\* and not hit by a synthesis failure has made exactly N complete passes when
\* it reaches teardown.
C5_ExactlyNPasses ==
    \A w \in Workers :
        (/\ worker[w].pc = "finish"
         /\ ~worker[w].failed
         /\ ~is_infinite(Script_of(w)))
        => worker[w].passes = Script_of(w).loop_config.count

\* C6: a run with count = 0 goes to teardown only after a stop was requested
\* (or a failure), and once stop_playback() was called during the run it
\* begins no further pass.
C6_NoPassAfterStop ==
    [][\A w \in Workers :
         is_infinite(Script_of(w)) =>
            /\ (worker[w].pc = "check_stop" /\ worker'[w].pc = "set_index")
                  => ~worker[w].stopped
            /\ (worker[w].pc # "finish" /\ worker'[w].pc = "finish")
                  => (stop_requested \/ worker'[w].failed)]_vars

\* C7: once stop_playback() was called during a run, the worker is never in
\* an uninterruptible sleep longer than one slice (chunk_ms), in the delay
\* of an event and in the delay between loops.
C7_StopWithinOneSlice ==
    \A w \in Workers :
        (worker[w].stopped /\ worker[w].pc \in {"sleeping", "loop_sleep"})
        => worker[w].sleep_time <= chunk_ms

\* C8: every spawned worker eventually completes the teardown when its loop
\* count is finite or a stop was requested during its run.
C8_EventuallyTornDown ==
    \A w \in Workers :
        [](  (Live(w) /\ (~is_infinite(Script_of(w)) \/ worker[w].stopped))
           => <>(worker[w].pc = "done"))

\* C9: stop() sets stop_requested and clears is_playing, touches nothing
\* else, and is idempotent - from every reachable state, playing or not,
\* two calls leave the state one call leaves.
C9_StopIdempotent ==
    LET once == PlaybackState_stop(PS) IN
        /\ once.stop_requested
        /\ ~once.is_playing
        /\ once.current_loop = current_loop
        /\ once.current_event = current_event
        /\ PlaybackState_stop(once) = once

\* stop_playback() has run to completion during a run, and nothing has
\* started since.
C9_Witness ==
    /\ \E w \in Workers : worker[w].stopped
    /\ \A c \in Callers : caller[c].pc = "idle"
    /\ PS = PlaybackState_stop(PS)

\* The keys configured as hotkeys (hotkey.rs:12-19).
HotkeyKeys == {hotkeys.recording_key, hotkeys.playback_key, hotkeys.stop_key}

\* C10: no KeyPress or KeyRelease of a configured hotkey is ever in the
\* recorder's event log, and none is ever handed to check_and_execute.
C10_HotkeysNeverRouted ==
    /\ \A i \in 1..Len(events) :
          ~(/\ events[i].event_type \in {"KeyPress", "KeyRelease"}
            /\ \E k \in HotkeyKeys : events[i].key = KeyboardKey_from(k))
    /\ caller["hook"].pc \in {"check_and_execute", "find_by_trigger"}
          => ~(/\ caller["hook"].event.type \in {"KeyPress", "KeyRelease"}
               /\ caller["hook"].event.key \in HotkeyKeys)

\* C11: when a non-hotkey event reaches the playback guard while is_playing()
\* is true, the arbiter drops it there: the hook thread returns from
\* handle_event, and the recorder's and the macro table's state are unchanged.
C11_DiscardedWhilePlaying ==
    [][(/\ caller["hook"].pc = "guard"
        /\ caller'["hook"].pc # "guard"
        /\ is_playing)
       => /\ caller'["hook"] = IdleCaller
          /\ UNCHANGED <<recvars, macvars>>]_vars

\* An ordinary key press stands at the guard while a run is active, recording
\* is on and macro listening is on with a macro bound to that key.
C11_Witness ==
    /\ caller["hook"].pc = "guard"
    /\ caller["hook"].event = RawKeyPress("KeyA")
    /\ is_playing
    /\ is_recording
    /\ macro_active
    /\ macros[get_trigger_id(MacroA.trigger)] # <<>>

StartsRecording(c) ==
    /\ caller[c].pc \in {"idle", "rec_check"}
    /\ caller'[c].pc \in {"rec_clear", "rec_return"}

\* C13: start_recording() called while is_recording() is true returns the
\* error and changes no recorder state: the log, the delay clock, the cursor
\* cache and the flag are as before the call.
C13_AlreadyRecording ==
    [][\A c \in Callers :
         (StartsRecording(c) /\ is_recording) =>
            /\ caller'[c].pc = "rec_return"
            /\ caller'[c].result = "Already recording"
            /\ UNCHANGED recvars]_vars

\* start_recording() has just been rejected during a session whose log is not
\* empty.
C13_Witness ==
    \E c \in Callers :
        /\ caller[c].pc = "rec_return"
        /\ caller[c].result = "Already recording"
        /\ is_recording
        /\ events # <<>>

\* C14: whatever the earlier sessions recorded, when start_recording()
\* succeeds the log is empty and recording is on, and stop_recording() returns
\* the log as it then is with recording off: with no event committed in
\* between, the empty list.
C14_EmptySession ==
    [][\A c \in Callers :
         /\ (caller[c].pc = "rec_flag" /\ caller'[c].pc = "rec_return")
                => (events' = <<>> /\ is_recording')
         /\ (caller[c].pc = "idle" /\ caller'[c].pc = "rec_snapshot")
                => ~is_recording'
         /\ (caller[c].pc = "rec_snapshot" /\ caller'[c].pc = "rec_return")
                => caller'[c].snapshot = events]_vars

\* C15: once stop_recording() has returned (recording is off, no
\* stop_recording() and no start_recording() is under way), the event log does
\* not change (a commit is a no-op while not recording), and the snapshot
\* stop_recording() returns is the log at that moment.
C15_LogFrozenAfterStop ==
    [][/\ (~is_recording /\ \A c \in Callers :
               caller[c].pc \notin {"rec_snapshot", "rec_clear", "rec_time", "rec_flag"})
          => events' = events
       /\ \A c \in Callers :
            (caller[c].pc = "rec_snapshot" /\ caller'[c].pc = "rec_return")
               => caller'[c].snapshot = events']_vars

RECURSIVE SumDelays(_)
\* The sum of the delays of a list of events.
SumDelays(event_list) ==
    IF event_list = <<>> THEN 0
    ELSE Head(event_list).delay_ms + SumDelays(Tail(event_list))

\* C16: while a session records (start_recording() has returned), the delays
\* in the log add up to the time from the start of the session to the last
\* commit: each delay is the time since the previous commit, the first since
\* start_recording().
C16_DelaysSumToElapsed ==
    (/\ is_recording
     /\ \A c \in Callers : caller[c].pc \notin {"rec_clear", "rec_time", "rec_flag"})
       => SumDelays(events) = last_event_time[1] - start_time[1]

\* C17: the hook commits a pointer move only if at least 20 ms have passed
\* since the last committed event (the log is not empty and last_event_time
\* is the time of its last commit, not of the start), and every MouseMove in
\* the log carries a delay of at least 20 ms, so that of two moves less than
\* 20 ms apart at most one is committed.
C17_MoveThrottle ==
    /\ [][(/\ caller["hook"].pc = "commit"
           /\ caller["hook"].event.type = "MouseMove"
           /\ events' # events
           /\ events # <<>>
           /\ last_event_time # start_time)
          => now - last_event_time[1] >= throttle_ms]_vars
    /\ [](\A i \in 1..Len(events) :
            events[i].event_type = "MouseMove" => events[i].delay_ms >= throttle_ms)

\* C18: a MousePress or MouseRelease the hook commits carries the
\* coordinates of the most recent raw pointer move that handle_event
\* received.
C18_ClickAtLastRawMove ==
    [][(/\ caller["hook"].pc = "commit"
        /\ caller["hook"].event.type \in {"ButtonPress", "ButtonRelease"}
        /\ events' # events
        /\ last_move # <<>>)
       => LET committed == events'[Len(events')]
          IN <<committed.x, committed.y>> = last_move]_vars

\* The entries of the table whose definition has trigger identity t.
BindingsOf(t) ==
    {k \in MacroKeys : macros[k] # <<>> /\ get_trigger_id(macros[k][1].trigger) = t}

\* C19: the macro table holds at most one binding per trigger identity, and
\* a step that binds a definition whose trigger identity is already bound
\* replaces that binding: the list does not grow.
C19_OneBindingPerTrigger ==
    /\ [](\A t \in TriggerIds : Cardinality(BindingsOf(t)) <= 1)
    /\ [][\A k \in MacroKeys :
            (/\ macros'[k] # macros[k]
             /\ macros'[k] # <<>>
             /\ BindingsOf(get_trigger_id(macros'[k][1].trigger)) # {})
               => /\ macros_len' = macros_len
                  /\ macros[k] # <<>>
                  /\ macros'[k][1] \in get_all_macros']_vars

\* Both trigger identities are bound, and the key-a trigger holds the second
\* definition added for it.
C19_Witness ==
    /\ macros_len = 2
    /\ macros[get_trigger_id(MacroA.trigger)] = <<MacroA2>>
    /\ macros[get_trigger_id(MacroF9.trigger)] = <<MacroF9>>

\* C20: the arbiter hands an event to check_and_execute only when recording
\* is inactive and the event is a key press or a button press, and
\* check_and_execute fires the macro (spawns the macro thread) exactly when
\* the trigger is bound to an enabled macro and macro listening is active: no
\* macro fires while the listener is stopped.
C20_MacroDispatch ==
    [][/\ (caller["hook"].pc # "check_and_execute"
           /\ caller'["hook"].pc = "check_and_execute")
          => (~is_recording /\ trigger_of(caller'["hook"].event) # <<>>)
       /\ (caller["hook"].pc = "find_by_trigger"
           /\ caller'["hook"].pc # "find_by_trigger")
          => LET found == find_by_trigger(trigger_of(caller["hook"].event)[1])
             IN (caller'["macro"].pc = "macro_thread")
                   <=> (found # <<>> /\ found[1].enabled /\ macro_active)]_vars

\* C21: a run started by play_events(events, speed) is a play_script run of
\* those events at that speed with loop count 1 and no delay between loops;
\* not stopped (NoStopSpec) and not hit by a synthesis failure, it has made
\* exactly one complete pass over the list, each event synthesized once and in
\* order, when it reaches teardown.
C21_PlayEventsOnePass ==
    \A w \in Workers :
        (/\ Script_of(w).events \in EventLists \ {<<>>}
         /\ worker[w].pc \in {"finish", "finish_notify"})
        => /\ \E event_list \in EventLists, speed \in Speeds :
                Script_of(w) = [Script_default EXCEPT !.events = event_list,
                                                      !.speed_multiplier = speed]
           /\ ~worker[w].failed => worker[w].passes = 1

C23_StopNotLost ==
    [][\A w \in Workers :
         worker[w].stopped =>
            /\ (worker[w].pc = "pre_synth" => worker'[w].pc # "synth")
            /\ (worker[w].pc = "check_stop" => worker'[w].pc # "set_index")
            /\ (worker[w].pc = "wait_check" => worker'[w].pc # "sleeping")]_vars

\* C24: a run whose synthesis call failed goes to the teardown and nowhere
\* else (no further event, no further loop); the teardown stores is_playing =
\* false; and with the failed run in teardown and no other run live or being
\* started, play_script of a non-empty script is accepted.
C24_FailureTearsDown ==
    /\ [][\A w \in Workers :
            /\ (worker[w].pc = "synth" /\ worker'[w].failed)
                  => worker'[w].pc = "finish"
            /\ worker[w].failed
                  => worker'[w].pc \in {"finish", "finish_notify", "done"}
            /\ (worker[w].pc = "finish" /\ worker'[w].pc = "finish_notify")
                  => ~is_playing']_vars
    /\ [](\A w \in Workers :
            (/\ worker[w].failed
             /\ worker[w].pc = "finish_notify"
             /\ LiveWorkers = {w}
             /\ InFlightPlays = {})
            => play_script_validate(is_playing, ScriptTwice) = "Ok")

\* A run failed at its second pass and is in teardown with is_playing false; a
\* later play_script has been accepted.
C24_Witness ==
    \E w \in Workers, c \in Callers :
        /\ worker[w].failed
        /\ worker[w].passes = 1
        /\ worker[w].pc = "finish_notify"
        /\ ~is_playing
        /\ caller[c].pc = "start_counters"

\* C25: the playback overlay is never left shown: in every quiescent state
\* (no command or hook handler in progress, no playback worker live,
\* recording inactive) the blue overlay a play command has shown is hidden
\* again, also when the play call was rejected as empty or already playing.
C25_NoStaleOverlay ==
    (/\ \A c \in Callers : caller[c].pc = "idle"
     /\ LiveWorkers = {}
     /\ ~is_recording)
    => overlay # "#58a6ff"

\* C26: the arbiter uses the configured hotkeys: a key press it passes on to
\* the recorder and the macro table is not a configured hotkey, and it takes
\* the recording, playback or stop arm only for a press of the key that
\* set_hotkeys has bound to it (the arms are entered by F9, F10 and Escape).
C26_ConfiguredHotkeys ==
    [][caller["hook"].pc = "idle" =>
        /\ (caller'["hook"].pc = "guard" /\ caller'["hook"].event.type = "KeyPress")
               => caller'["hook"].event.key \notin HotkeyKeys
        /\ caller'["hook"].pc \in {"f9_stop_recording", "f9_is_playing"}
               => hotkeys.recording_key = "F9"
        /\ caller'["hook"].pc \in {"stop_requested", "f10_requested"}
               => hotkeys.playback_key = "F10"
        /\ caller'["hook"].pc = "esc_is_playing"
               => hotkeys.stop_key = "Escape"]_vars

\* C27: one physical press of F9, given to the global-shortcut handler and
\* to the raw hook, is processed once: when both have handled it (nothing
\* is playing), the recording state has changed exactly once, that is, it
\* is the opposite of what it was at the press.
C27_PressTogglesOnce ==
    (/\ f9_pressed # <<>>
     /\ caller["hook"].pc = "idle"
     /\ caller["cmd"].pc = "idle")
    => is_recording = ~f9_pressed[1]

\* C28: at every moment a playback worker synthesizes an event the arbiter's
\* playback guard is in force, that is, is_playing is true, also after
\* stop_playback() was called while the worker is still running; so no
\* synthesized event can reach the recorder or the macro table.
C28_GuardWhileSynthesizing ==
    [][\A w \in Workers :
          (worker[w].pc = "synth" /\ worker'[w].pc # "synth") => is_playing]_vars

\* C29: an incoming event goes to at most one consumer: a call of
\* handle_event that has committed its event to the recorder does not hand
\* it to the macro table (check_and_execute), whatever start_recording and
\* stop_recording do on other threads meanwhile.
C29_OneConsumer ==
    caller["hook"].pc = "check_and_execute" => caller["hook"].result # "committed"

\* C30: the inter-loop delay is waited only between consecutive passes: a
\* worker of a run with loop count N > 0 that sleeps delay_between_ms has
\* made fewer than N complete passes, so after the final pass it goes to
\* teardown without that wait.
C30_DelayOnlyBetweenPasses ==
    \A w \in Workers :
        (worker[w].pc = "loop_sleep" /\ ~is_infinite(Script_of(w)))
        => worker[w].passes < Script_of(w).loop_config.count

\* C31: within one run the events are synthesized strictly in script order:
\* the event a worker synthesizes is the successor, in the event list
\* repeated pass by pass, of the one it synthesized last (the first of the
\* list if none yet), and its speed-scaled delay has been waited in full.
C31_ScriptOrder ==
    [][\A w \in Workers :
          (worker[w].pc = "synth" /\ worker'[w].pc = "post_event")
          => /\ worker[w].remaining = 0
             /\ worker[w].index =
                    (worker[w].last_synth + 1) % Len(Script_of(w).events)]_vars

C33_ToggleOnlyFlag ==
    /\ [](\A k \in MacroKeys : macros[k] # <<>> =>
             \E d \in TableDefs, e \in BOOLEAN :
                /\ macros[k][1] = [d EXCEPT !.enabled = e]
                /\ get_trigger_id(d.trigger) = k)
    /\ [][\A c \in Callers :
            /\ (caller[c].pc = "idle" /\ caller'[c].pc = "toggle_insert")
               => \E k \in MacroKeys :
                     /\ macros[k] # <<>>
                     /\ macros[k][1].id = caller'[c].updated[1].id
                     /\ \E e \in BOOLEAN :
                           caller'[c].updated[1] = [macros[k][1] EXCEPT !.enabled = e]
            /\ (caller[c].pc = "toggle_insert" /\ caller'[c].pc = "idle")
               => LET updated == caller[c].updated[1]
                      k == get_trigger_id(updated.trigger)
                  IN /\ macros[k] # <<>>
                     /\ macros[k][1].id = updated.id
                     /\ macros' = [macros EXCEPT ![k] =
                            <<[macros[k][1] EXCEPT !.enabled = updated.enabled]>>]
                     /\ UNCHANGED macro_active]_vars

\* toggle_macro("macro_1", false) is about to store its copy while the table
\* holds a second binding, under another trigger.
C33_Witness ==
    /\ caller["cmd"].pc = "toggle_insert"
    /\ caller["cmd"].updated = <<[MacroA EXCEPT !.enabled = FALSE]>>
    /\ macros[get_trigger_id(MacroF9.trigger)] = <<MacroF9>>

\* C34: toggle_macro running beside remove_macro or add_macro on another
\* thread never re-inserts a definition that was removed and never replaces
\* a binding added after it read its snapshot: when it stores its copy, the
\* table still holds, under the copy's trigger identity, the definition with
\* that id it has read.
C34_ToggleNoResurrect ==
    [][\A c \in {"cmd", "cmd2"} :
          (caller[c].pc = "toggle_insert" /\ caller'[c].pc = "idle")
          => LET k == get_trigger_id(caller[c].updated[1].trigger)
             IN /\ macros[k] # <<>>
                /\ [macros[k][1] EXCEPT !.enabled = caller[c].updated[1].enabled]
                      = caller[c].updated[1]]_vars

\* C35: macro definition ids are unique in the table: whatever add_macro,
\* remove_macro and toggle_macro calls were made, no two bindings of the
\* table have the same id.
C35_UniqueIds ==
    \A k1, k2 \in MacroKeys :
        (k1 # k2 /\ macros[k1] # <<>> /\ macros[k2] # <<>>)
        => macros[k1][1].id # macros[k2][1].id

\* C36: a KeyPress or KeyRelease whose key has no native counterpart is
\* skipped without error: its delay has been waited, no synthesis call is
\* made, the run does not fail, the worker goes on with the next event, and
\* a run that is neither stopped nor failed has executed its whole list when
\* it reaches teardown.
C36_UnmappableKeySkipped ==
    /\ [][\A w \in Workers :
            (/\ worker[w].pc = "synth"
             /\ worker'[w].pc # "synth"
             /\ Event_of(w).event_type \in {"KeyPress", "KeyRelease"}
             /\ Event_of(w).key.type = "Special"
             /\ Event_of(w).key.value \notin EnigoSpecialKeys)
            => /\ worker[w].remaining = 0
               /\ worker'[w].pc = "post_event"
               /\ worker'[w].calls = <<>>
               /\ ~worker'[w].failed
               /\ worker'[w].last_synth = worker[w].index]_vars
    /\ [](\A w \in Workers :
            (worker[w].pc = "finish" /\ ~worker[w].failed)
            => worker[w].last_synth = Len(Script_of(w).events) - 1)

\* The worker has skipped the Insert press and release and has synthesized
\* the press of the key that follows them.
C36_Witness ==
    \E w \in Workers :
        /\ Script_of(w) = ScriptKeys
        /\ worker[w].pc = "post_event"
        /\ worker[w].last_synth = 2
        /\ worker[w].calls = <<[call |-> "key", key |-> [unicode |-> "a"], direction |-> "Press"]>>

\* C37: in a run of a script without a MouseMove event every MousePress and
\* MouseRelease is synthesized by the button call alone, at the live cursor
\* position; in a run of a script with at least one MouseMove the button
\* call is preceded by a pointer move to the event's recorded x, y.
C37_ClickPosition ==
    [][\A w \in Workers :
          (/\ worker[w].pc = "synth"
           /\ worker'[w].pc = "post_event"
           /\ Event_of(w).event_type \in {"MousePress", "MouseRelease"})
          => LET event == Event_of(w)
                 direction == IF event.event_type = "MousePress"
                              THEN "Press" ELSE "Release"
                 click == [call |-> "button", button |-> event.button,
                           direction |-> direction]
                 moves == {i \in 1..Len(Script_of(w).events) :
                              Script_of(w).events[i].event_type = "MouseMove"}
             IN worker'[w].calls =
                   IF moves = {} THEN <<click>>
                   ELSE <<[call |-> "move_mouse", x |-> event.x, y |-> event.y], click>>]_vars

\* A release of a script with a pointer move was synthesized at its recorded
\* position, a press of a script without one at the live position.
C37_Witness ==
    \E w \in Workers :
        /\ Script_of(w) = ScriptMoveClick
        /\ worker[w].pc = "post_event"
        /\ worker[w].calls = <<[call |-> "move_mouse", x |-> 5, y |-> 6],
                               [call |-> "button", button |-> "Left", direction |-> "Release"]>>

\* C38: whenever a playback worker is live, has not begun its own teardown
\* and no stop was requested for its run, is_playing is true: the teardown
\* of an earlier run never clears the flag of a later run.
C38_LiveImpliesPlaying ==
    \A w \in Workers :
        (/\ Live(w)
         /\ worker[w].pc # "finish_notify"
         /\ ~worker[w].stopped)
        => is_playing

\* C39: recording and playback are never active together: in no reachable
\* state are is_recording and is_playing both true, whichever path started
\* them.
C39_NeverBoth == ~(is_recording /\ is_playing)

\* The emergency stop in use: the frontend plays scripts and stops them
\* through the commands, one command after the other; the user toggles
\* recording with F9 and presses Escape; the workers run.
EscEvents == {RawKeyPress("Escape"), RawKeyPress("F9")}

EscNext ==
    \/ \E e \in EscEvents : HookHotkeys(e)
    \/ HookF9StopRecording
    \/ HookF9IsPlaying
    \/ HookStartRecording
    \/ RecStartClear("hook")
    \/ RecStartTime("hook")
    \/ RecStartFlag("hook")
    \/ RecReturn("hook")
    \/ HookEscIsPlaying
    \/ HookEscStopRecording
    \/ HookStopStoreRequested
    \/ PlayScriptCheck("cmd", ScriptTwice)
    \/ PlayStep("cmd")
    \/ StopStoreRequested("cmd")
    \/ \E c \in {"cmd", "hook"} : StopStorePlaying(c)
    \/ \E w \in Workers : WorkerStep(w)

EscSpec == Init /\ [][EscNext]_vars

\* The step with which the hook thread returns from the Escape arm of
\* handle_event.
EscapeHandled ==
    /\ \/ caller["hook"].pc \in {"esc_is_playing", "esc_stop_recording"}
       \/ caller["hook"].pc = "stop_playing" /\ caller["hook"].was_playing
    /\ caller'["hook"].pc = "idle"

\* A run that is still going to synthesize events: its worker has not left
\* the loop.
ActiveRun(w) == Live(w) /\ worker[w].pc \notin {"finish", "finish_notify"}

\* C40: when the arbiter has handled an Escape KeyPress, is_recording and
\* is_playing are false and a stop has been requested for every active run,
\* also while playback is active; the event is not routed further (the hook
\* returns without reaching the guard, the recorder or the macro dispatch),
\* and "emergency-stop" is emitted exactly when recording or playback was
\* found active.
C40_EmergencyStop ==
    [][/\ EscapeHandled
          => /\ ~is_recording'
             /\ ~is_playing'
             /\ \A w \in Workers :
                   ActiveRun(w)' => (worker'[w].stopped \/ stop_requested')
             /\ caller'["hook"].result = "emergency-stop"
                   <=> (caller["hook"].was_recording \/ caller["hook"].was_playing)
       /\ caller["hook"].pc \in {"esc_is_playing", "esc_stop_recording"}
          => caller'["hook"].pc \in
                {"idle", "esc_is_playing", "esc_stop_recording", "stop_requested"}]_vars

====
